---- MODULE Spec2Model ----
(***************************************************************************)
(* Hansel: the terminal supervision and autonomous-response engine of      *)
(* src/hansel.py (autonomous_mode, is_question, clean_ansi).                *)
(*                                                                         *)
(* Text is a sequence of one-character strings; a character outside ASCII  *)
(* is written by its code point ("U+2713").  Time is counted in whole       *)
(* seconds since an arbitrary epoch.                                        *)
(***************************************************************************)
EXTENDS Integers, Sequences, FiniteSets, TLC

\* ------------------------------------------------------------------------
\* Text primitives (Python str methods and the regular-expression pieces
\* that is_question and handle_output use)
\* ------------------------------------------------------------------------

UpperCase == <<"A","B","C","D","E","F","G","H","I","J","K","L","M",
               "N","O","P","Q","R","S","T","U","V","W","X","Y","Z">>

LowerCase == <<"a","b","c","d","e","f","g","h","i","j","k","l","m",
               "n","o","p","q","r","s","t","u","v","w","x","y","z">>

Digits == {"0","1","2","3","4","5","6","7","8","9"}

Range(s) == {s[i] : i \in 1..Len(s)}

\* str.lower() on one character
LowerChar(c) ==
    IF c \in Range(UpperCase)
    THEN LowerCase[CHOOSE i \in 1..26 : UpperCase[i] = c]
    ELSE c

\* str.lower()
Lower(s) == [i \in 1..Len(s) |-> LowerChar(s[i])]

\* \s of the re module, and the characters str.strip() removes
IsSpace(c) == c \in {" ", "\t", "\n", "\r", "\f"}

\* \w of the re module
IsWord(c) == c \in Range(LowerCase) \cup Range(UpperCase) \cup Digits \cup {"_"}

\* str.strip()
Strip(s) ==
    LET keep == {i \in 1..Len(s) : ~IsSpace(s[i])}
    IN  IF keep = {} THEN << >>
        ELSE SubSeq(s, CHOOSE i \in keep : \A j \in keep : i <= j,
                       CHOOSE i \in keep : \A j \in keep : j <= i)

\* s[:n]
Prefix(s, n) == SubSeq(s, 1, IF Len(s) < n THEN Len(s) ELSE n)

\* the literal p stands in s at position i
LitAt(s, i, p) ==
    /\ i >= 1
    /\ i + Len(p) - 1 <= Len(s)
    /\ \A k \in 1..Len(p) : s[i + k - 1] = p[k]

\* p in s
Contains(s, p) == \E i \in 1..(Len(s) - Len(p) + 1) : LitAt(s, i, p)

\* s.startswith(p)
StartsWith(s, p) == LitAt(s, 1, p)

\* one character of a class at position i
ClassAt(s, i, class) == i >= 1 /\ i <= Len(s) /\ s[i] \in class

\* the positions a run of characters satisfying Test can end before, starting
\* at i: x* gives AfterStar, x+ gives AfterPlus, x? gives AfterOpt
AfterStar(s, i, Test(_)) ==
    {j \in i..(Len(s) + 1) : \A k \in i..(j - 1) : Test(s[k])}

AfterPlus(s, i, Test(_)) == AfterStar(s, i, Test) \ {i}

AfterOpt(s, i, class) == {i} \cup (IF ClassAt(s, i, class) THEN {i + 1} ELSE {})

IsDigit(c) == c \in Digits

\* the regular expression's "." (any character but a newline)
IsDot(c) == c # "\n"

\* the regular expression's "$": the end, or just before a final newline
AtEnd(s, i) == i = Len(s) + 1 \/ (i = Len(s) /\ s[i] = "\n")


\* ------------------------------------------------------------------------
\* Question detection (is_question, load_question_patterns)
\* ------------------------------------------------------------------------
\* Every pattern is searched with re.IGNORECASE: the operators below take
\* the lower-cased line, and the patterns are written in lower case.

\* r'^[\s]*[#/\*]'   Comments
sk_comment(l) == \E j \in AfterStar(l, 1, IsSpace) : ClassAt(l, j, {"#", "/", "*"})

\* r'^[\s]*import '
sk_import(l) ==
    \E j \in AfterStar(l, 1, IsSpace) : LitAt(l, j,
        <<"i","m","p","o","r","t"," ">>)

\* r'^[\s]*from '
sk_from(l) ==
    \E j \in AfterStar(l, 1, IsSpace) : LitAt(l, j,
        <<"f","r","o","m"," ">>)

\* r'^[\s]*def '
sk_def(l) ==
    \E j \in AfterStar(l, 1, IsSpace) : LitAt(l, j,
        <<"d","e","f"," ">>)

\* r'^[\s]*class '
sk_class(l) ==
    \E j \in AfterStar(l, 1, IsSpace) : LitAt(l, j,
        <<"c","l","a","s","s"," ">>)

\* r'^\+'  r'^\-'  r'^\?'  r'^>'
sk_diff_add(l) == ClassAt(l, 1, {"+"})

sk_diff_remove(l) == ClassAt(l, 1, {"-"})

sk_help_hint(l) == ClassAt(l, 1, {"?"})

sk_input_prompt(l) == ClassAt(l, 1, {">"})

\* r'for shortcuts'
sk_for_shortcuts(l) ==
    Contains(l, <<"f","o","r"," ","s","h","o","r","t","c","u","t","s">>)

\* r'to interrupt'
sk_to_interrupt(l) ==
    Contains(l, <<"t","o"," ","i","n","t","e","r","r","u","p","t">>)

\* r'to edit'
sk_to_edit(l) ==
    Contains(l, <<"t","o"," ","e","d","i","t">>)

\* r'ctrl[-+]'
sk_ctrl(l) ==
    \E i \in 1..Len(l) : LitAt(l, i, <<"c","t","r","l">>) /\ ClassAt(l, i + 4, {"-", "+"})

\* r'esc\s+to'
sk_esc_to(l) ==
    \E i \in 1..Len(l) :
        /\ LitAt(l, i, <<"e","s","c">>)
        /\ \E j \in AfterPlus(l, i + 3, IsSpace) : LitAt(l, j, <<"t","o">>)

\* r'Spelunking'
sk_spelunking(l) ==
    Contains(l, <<"s","p","e","l","u","n","k","i","n","g">>)

\* r'Thinking'
sk_thinking(l) ==
    Contains(l, <<"t","h","i","n","k","i","n","g">>)

\* r'Reading'
sk_reading(l) ==
    Contains(l, <<"r","e","a","d","i","n","g">>)

\* r'Writing'
sk_writing(l) ==
    Contains(l, <<"w","r","i","t","i","n","g">>)

\* r'Searching'
sk_searching(l) ==
    Contains(l, <<"s","e","a","r","c","h","i","n","g">>)

\* r'^\d+\.'   Numbered list items
sk_numbered(l) == \E j \in AfterPlus(l, 1, IsDigit) : ClassAt(l, j, {"."})

\* r'^\[\s*[\]xX(U+2713)(U+2714)]\s*\]'   Checkbox items
sk_checkbox(l) ==
    /\ ClassAt(l, 1, {"["})
    /\ \E j \in AfterStar(l, 2, IsSpace) :
          /\ ClassAt(l, j, {"]", "x", "U+2713", "U+2714"})
          /\ \E k \in AfterStar(l, j + 1, IsSpace) : ClassAt(l, k, {"]"})

\* r'Enter to select'
sk_enter_to_select(l) ==
    Contains(l, <<"e","n","t","e","r"," ","t","o"," ","s","e","l","e","c","t">>)

\* r'Tab.*to navigate'
sk_tab_navigate(l) ==
    \E i \in 1..Len(l) :
        /\ LitAt(l, i, <<"t","a","b">>)
        /\ \E j \in AfterStar(l, i + 3, IsDot) : LitAt(l, j,
            <<"t","o"," ","n","a","v","i","g","a","t","e">>)

\* r'Arrow keys'
sk_arrow_keys(l) ==
    Contains(l, <<"a","r","r","o","w"," ","k","e","y","s">>)

\* r'to cancel'
sk_to_cancel(l) ==
    Contains(l, <<"t","o"," ","c","a","n","c","e","l">>)

\* r'^(U+2190)|^(U+2192)|^(U+2191)|^(U+2193)'   Arrow symbols
sk_arrows(l) == ClassAt(l, 1, {"U+2190", "U+2192", "U+2191", "U+2193"})

\* r'^\s*Next\s*$'
sk_next(l) ==
    \E j \in AfterStar(l, 1, IsSpace) :
        /\ LitAt(l, j, <<"n","e","x","t">>)
        /\ \E k \in AfterStar(l, j + 4, IsSpace) : AtEnd(l, k)

\* r'Submit'
sk_submit(l) ==
    Contains(l, <<"s","u","b","m","i","t">>)

\* r'Package'
sk_package(l) ==
    Contains(l, <<"p","a","c","k","a","g","e">>)

\* r'Features'
sk_features(l) ==
    Contains(l, <<"f","e","a","t","u","r","e","s">>)

\* r'Rendering'
sk_rendering(l) ==
    Contains(l, <<"r","e","n","d","e","r","i","n","g">>)

\* r'Styling'
sk_styling(l) ==
    Contains(l, <<"s","t","y","l","i","n","g">>)

\* r'initial version'
sk_initial_version(l) ==
    Contains(l, <<"i","n","i","t","i","a","l"," ","v","e","r","s","i","o","n">>)

\* r'core features'
sk_core_features(l) ==
    Contains(l, <<"c","o","r","e"," ","f","e","a","t","u","r","e","s">>)

\* r'want in the'
sk_want_in_the(l) ==
    Contains(l, <<"w","a","n","t"," ","i","n"," ","t","h","e">>)

\* r'want to use'
sk_want_to_use(l) ==
    Contains(l, <<"w","a","n","t"," ","t","o"," ","u","s","e">>)

\* r'framework.*setup'
sk_framework_setup(l) ==
    \E i \in 1..Len(l) :
        /\ LitAt(l, i, <<"f","r","a","m","e","w","o","r","k">>)
        /\ \E j \in AfterStar(l, i + 9, IsDot) : LitAt(l, j,
            <<"s","e","t","u","p">>)

\* r'do you want to use for'
sk_want_to_use_for(l) ==
    Contains(l, <<"d","o"," ","y","o","u"," ","w","a","n","t"," ","t","o"," ","u","s","e"," ","f","o","r">>)

\* r'which.*would you'
sk_which_would_you(l) ==
    \E i \in 1..Len(l) :
        /\ LitAt(l, i, <<"w","h","i","c","h">>)
        /\ \E j \in AfterStar(l, i + 5, IsDot) : LitAt(l, j,
            <<"w","o","u","l","d"," ","y","o","u">>)

\* r'select.*from'
sk_select_from(l) ==
    \E i \in 1..Len(l) :
        /\ LitAt(l, i, <<"s","e","l","e","c","t">>)
        /\ \E j \in AfterStar(l, i + 6, IsDot) : LitAt(l, j,
            <<"f","r","o","m">>)

\* r'choose.*from'
sk_choose_from(l) ==
    \E i \in 1..Len(l) :
        /\ LitAt(l, i, <<"c","h","o","o","s","e">>)
        /\ \E j \in AfterStar(l, i + 6, IsDot) : LitAt(l, j,
            <<"f","r","o","m">>)

\* r'\w+\?\s*$'   TypeScript/Prisma optional types: String?, Int?
sk_optional_type(l) ==
    \E i \in 1..Len(l) :
        /\ IsWord(l[i])
        /\ ClassAt(l, i + 1, {"?"})
        /\ \E k \in AfterStar(l, i + 2, IsSpace) : AtEnd(l, k)

\* r'===\s*[\'"]?\w+[\'"]?\s*\?'   Ternary operators: === 'text' ?
sk_ternary_eq(l) ==
    \E i \in 1..Len(l) :
        /\ LitAt(l, i, <<"=","=","=">>)
        /\ \E a \in AfterStar(l, i + 3, IsSpace) :
           \E b \in AfterOpt(l, a, {"'", "\""}) :
           \E c \in AfterPlus(l, b, IsWord) :
           \E d \in AfterOpt(l, c, {"'", "\""}) :
           \E e \in AfterStar(l, d, IsSpace) : ClassAt(l, e, {"?"})

\* r'\?\s*:'   Ternary operator: condition ? true : false
sk_ternary(l) ==
    \E i \in 1..Len(l) :
        /\ l[i] = "?"
        /\ \E j \in AfterStar(l, i + 1, IsSpace) : ClassAt(l, j, {":"})

\* r'\?\.'   Optional chaining
sk_optional_chain(l) == Contains(l, <<"?", ".">>)

\* r'\?\['   Optional indexing
sk_optional_index(l) == Contains(l, <<"?", "[">>)

\* r'^\s*\w+\s+\w+\??$'   Schema fields: fieldName Type?
sk_schema_field(l) ==
    \E a \in AfterStar(l, 1, IsSpace) :
    \E b \in AfterPlus(l, a, IsWord) :
    \E c \in AfterPlus(l, b, IsSpace) :
    \E d \in AfterPlus(l, c, IsWord) :
    \E e \in AfterOpt(l, d, {"?"}) : AtEnd(l, e)

\* r'const\s+\w+'  r'let\s+\w+'  r'var\s+\w+'   Variable declarations
Declares(l, kw) ==
    \E i \in 1..Len(l) :
        /\ LitAt(l, i, kw)
        /\ \E j \in AfterPlus(l, i + Len(kw), IsSpace) : j <= Len(l) /\ IsWord(l[j])

sk_const(l) == Declares(l, <<"c","o","n","s","t">>)

sk_let(l) == Declares(l, <<"l","e","t">>)

sk_var(l) == Declares(l, <<"v","a","r">>)

\* r'=>'   Arrow functions
sk_arrow_fn(l) == Contains(l, <<"=", ">">>)

\* r'\{.*\}'  r'\[.*\]'   Objects/blocks with braces, arrays with brackets
Encloses(l, open, close) ==
    \E i \in 1..Len(l) :
        /\ l[i] = open
        /\ \E j \in AfterStar(l, i + 1, IsDot) : ClassAt(l, j, {close})

sk_braces(l) == Encloses(l, "{", "}")

sk_brackets(l) == Encloses(l, "[", "]")

\* skip_patterns, by the groups the source's comments give them
SkipStatement(l) ==
    sk_comment(l) \/ sk_import(l) \/ sk_from(l) \/ sk_def(l) \/ sk_class(l)

SkipDiff(l) == sk_diff_add(l) \/ sk_diff_remove(l)

SkipUiHint(l) ==
    \/ sk_help_hint(l) \/ sk_for_shortcuts(l) \/ sk_to_interrupt(l) \/ sk_to_edit(l)
    \/ sk_ctrl(l) \/ sk_esc_to(l) \/ sk_input_prompt(l)
    \/ sk_spelunking(l) \/ sk_thinking(l) \/ sk_reading(l) \/ sk_writing(l)
    \/ sk_searching(l)

SkipMenu(l) ==
    \/ sk_numbered(l) \/ sk_checkbox(l) \/ sk_enter_to_select(l) \/ sk_tab_navigate(l)
    \/ sk_arrow_keys(l) \/ sk_to_cancel(l) \/ sk_arrows(l) \/ sk_next(l)
    \/ sk_submit(l) \/ sk_package(l) \/ sk_features(l) \/ sk_rendering(l)
    \/ sk_styling(l) \/ sk_initial_version(l) \/ sk_core_features(l)
    \/ sk_want_in_the(l) \/ sk_want_to_use(l) \/ sk_framework_setup(l)
    \/ sk_want_to_use_for(l) \/ sk_which_would_you(l) \/ sk_select_from(l)
    \/ sk_choose_from(l)

SkipCode(l) ==
    \/ sk_optional_type(l) \/ sk_ternary_eq(l) \/ sk_ternary(l)
    \/ sk_optional_chain(l) \/ sk_optional_index(l) \/ sk_schema_field(l)
    \/ sk_const(l) \/ sk_let(l) \/ sk_var(l) \/ sk_arrow_fn(l)
    \/ sk_braces(l) \/ sk_brackets(l)

\* for pattern in skip_patterns: if re.search(pattern, line, re.IGNORECASE)
skip_patterns(l) ==
    SkipStatement(l) \/ SkipDiff(l) \/ SkipUiHint(l) \/ SkipMenu(l) \/ SkipCode(l)

\* r'\?\s*$'
qp_question_mark(l) ==
    \E i \in 1..Len(l) :
        /\ l[i] = "?"
        /\ \E k \in AfterStar(l, i + 1, IsSpace) : AtEnd(l, k)

\* r'^Would you'
qp_would_you(l) ==
    StartsWith(l, <<"w","o","u","l","d"," ","y","o","u">>)

\* r'^Do you'
qp_do_you(l) ==
    StartsWith(l, <<"d","o"," ","y","o","u">>)

\* r'^Should I'
qp_should_i(l) ==
    StartsWith(l, <<"s","h","o","u","l","d"," ","i">>)

\* r'want me to'
qp_want_me_to(l) ==
    Contains(l, <<"w","a","n","t"," ","m","e"," ","t","o">>)

\* r'like me to'
qp_like_me_to(l) ==
    Contains(l, <<"l","i","k","e"," ","m","e"," ","t","o">>)

\* r'proceed'
qp_proceed(l) ==
    Contains(l, <<"p","r","o","c","e","e","d">>)

\* load_question_patterns: no lang directory ships with the script, so the
\* fallback list is what is_question searches
question_patterns(l) ==
    \/ qp_question_mark(l) \/ qp_would_you(l) \/ qp_do_you(l) \/ qp_should_i(l)
    \/ qp_want_me_to(l) \/ qp_like_me_to(l) \/ qp_proceed(l)

\* len(line) < 15
MinQuestionLen == 15

\* is_question with the inclusion patterns searched before the exclusions
is_question_inclusion_first(line) ==
    LET stripped == Strip(line)
        l == Lower(stripped)
    IN  IF stripped = << >> THEN FALSE
        ELSE IF Len(stripped) < MinQuestionLen THEN FALSE
        ELSE IF question_patterns(l) THEN TRUE
        ELSE FALSE

\* is_question without the minimum length
is_question_any_length(line) ==
    LET stripped == Strip(line)
        l == Lower(stripped)
    IN  IF stripped = << >> THEN FALSE
        ELSE IF skip_patterns(l) THEN FALSE
        ELSE question_patterns(l)

is_question(line) ==
    LET stripped == Strip(line)
        l == Lower(stripped)
    IN  IF stripped = << >> THEN FALSE
        ELSE IF Len(stripped) < MinQuestionLen THEN FALSE
        ELSE IF skip_patterns(l) THEN FALSE
        ELSE question_patterns(l)

\* ------------------------------------------------------------------------
\* ANSI code cleaning (clean_ansi)
\* ------------------------------------------------------------------------

ESC == "U+001B"

BEL == "U+0007"

\* [\r\x00-\x08\x0b\x0c\x0e-\x1f]
ControlChars ==
    {"\r", "\f", "U+0000", "U+0001", "U+0002", "U+0003", "U+0004", "U+0005", "U+0006",
     "U+0007", "U+0008", "U+000B", "U+000E", "U+000F", "U+0010", "U+0011", "U+0012",
     "U+0013", "U+0014", "U+0015", "U+0016", "U+0017", "U+0018", "U+0019", "U+001A",
     "U+001B", "U+001C", "U+001D", "U+001E", "U+001F"}

IsCsiParam(c) == c \in Digits \cup {";", "?"}

IsLetter(c) == c \in Range(LowerCase) \cup Range(UpperCase)

NotBelEsc(c) == c \notin {BEL, ESC}

NotEsc(c) == c # ESC

\* where a greedy run of Test characters starting at i stops
RunEnd(s, i, Test(_)) ==
    CHOOSE j \in AfterStar(s, i, Test) : \A k \in AfterStar(s, i, Test) : k <= j

\* Each XxxEnd(s, i) is the position after the match of one pattern of
\* clean_ansi at i, or 0 when the pattern does not match there.
\* r'\x1b\[[0-9;?]*[A-Za-z]'
CsiEnd(s, i) ==
    IF LitAt(s, i, <<ESC, "[">>)
    THEN LET j == RunEnd(s, i + 2, IsCsiParam)
         IN  IF j <= Len(s) /\ IsLetter(s[j]) THEN j + 1 ELSE 0
    ELSE 0

\* r'\x1b\][^\x07\x1b]*(?:\x07|\x1b\\)?'
OscEnd(s, i) ==
    IF LitAt(s, i, <<ESC, "]">>)
    THEN LET j == RunEnd(s, i + 2, NotBelEsc)
         IN  IF ClassAt(s, j, {BEL}) THEN j + 1
             ELSE IF LitAt(s, j, <<ESC, "\\">>) THEN j + 2
             ELSE j
    ELSE 0

\* r'\x1b[PX^_][^\x1b]*\x1b\\'
StringEnd(s, i) ==
    IF ClassAt(s, i, {ESC}) /\ ClassAt(s, i + 1, {"P", "X", "^", "_"})
    THEN LET j == RunEnd(s, i + 2, NotEsc)
         IN  IF LitAt(s, j, <<ESC, "\\">>) THEN j + 2 ELSE 0
    ELSE 0

\* r'\x1b.'
EscapeEnd(s, i) ==
    IF ClassAt(s, i, {ESC}) /\ i + 1 <= Len(s) /\ IsDot(s[i + 1]) THEN i + 2 ELSE 0

\* r'[\r\x00-\x08\x0b\x0c\x0e-\x1f]'
ControlEnd(s, i) == IF ClassAt(s, i, ControlChars) THEN i + 1 ELSE 0

\* re.sub(pattern, '', s) from position i on: the leftmost match is removed
\* and the search goes on after it
RECURSIVE re_sub(_, _, _)
re_sub(End(_, _), s, i) ==
    IF i > Len(s) THEN << >>
    ELSE IF End(s, i) > 0 THEN re_sub(End, s, End(s, i))
    ELSE <<s[i]>> \o re_sub(End, s, i + 1)

\* clean_ansi without its last substitution (the control characters)
clean_ansi_escapes_only(text) ==
    LET t1 == re_sub(CsiEnd, text, 1)
        t2 == re_sub(OscEnd, t1, 1)
        t3 == re_sub(StringEnd, t2, 1)
    IN  re_sub(EscapeEnd, t3, 1)

clean_ansi(text) ==
    LET t1 == re_sub(CsiEnd, text, 1)
        t2 == re_sub(OscEnd, t1, 1)
        t3 == re_sub(StringEnd, t2, 1)
        t4 == re_sub(EscapeEnd, t3, 1)
    IN  re_sub(ControlEnd, t4, 1)

\* ------------------------------------------------------------------------
\* Autonomous mode: constants and the pure helpers of handle_output and
\* respond_to_question
\* ------------------------------------------------------------------------

\* cooldown_seconds = 10: at least 10 seconds between questions
cooldown_seconds == 10

\* menu_cooldown = 3: only 3 seconds for menus
menu_cooldown == 3

\* response_cooldown_until = time.time() + 10 (free-form answer)
response_cooldown == 10

\* response_cooldown_until = time.time() + 15 (menu selection)
menu_response_cooldown == 15

\* Config.response_delay and Config.startup_delay (their defaults)
response_delay == 2

startup_delay == 5

\* line_normalized = clean_line.strip().lower()[:50]
normalized_len == 50

\* len(buffer_lines) > 200  ->  buffer_lines[-100:]
buffer_max == 200

buffer_keep == 100

\* recent_context = '\n'.join(buffer_lines[-15:]).lower()
context_lines_n == 15

\* inactivity_threshold = 30: seconds of no output before warning
inactivity_threshold == 30

\* start_time = time.time(): seconds since the epoch when the session starts
start_time == 100

\* how long after start_time the clock of the model runs
MaxTime == 17

\* seq[-n:]
LastN(seq, n) == IF Len(seq) <= n THEN seq ELSE SubSeq(seq, Len(seq) - n + 1, Len(seq))

\* '\n'.join(lines)
RECURSIVE Join(_)
Join(lines) ==
    IF lines = << >> THEN << >>
    ELSE IF Len(lines) = 1 THEN lines[1]
    ELSE lines[1] \o <<"\n">> \o Join(Tail(lines))

\* text.split('\n')
RECURSIVE SplitNewline(_)
SplitNewline(text) ==
    IF "\n" \notin Range(text) THEN <<text>>
    ELSE LET i == CHOOSE k \in 1..Len(text) :
                      text[k] = "\n" /\ \A m \in 1..(k - 1) : text[m] # "\n"
         IN  <<SubSeq(text, 1, i - 1)>> \o SplitNewline(SubSeq(text, i + 1, Len(text)))

\* while '\n' in line_buffer or '\r' in line_buffer
HasSeparator(buf) == "\n" \in Range(buf) \/ "\r" \in Range(buf)

\* for sep in ['\r\n', '\n', '\r']: if sep in line_buffer: ... break
Separator(buf) ==
    IF Contains(buf, <<"\r", "\n">>) THEN <<"\r", "\n">>
    ELSE IF Contains(buf, <<"\n">>) THEN <<"\n">>
    ELSE <<"\r">>

\* line, line_buffer = line_buffer.split(sep, 1)
SplitLine(buf) ==
    LET sep == Separator(buf)
        i == CHOOSE k \in 1..Len(buf) :
                 LitAt(buf, k, sep) /\ \A m \in 1..(k - 1) : ~LitAt(buf, m, sep)
    IN  [line |-> SubSeq(buf, 1, i - 1), rest |-> SubSeq(buf, i + Len(sep), Len(buf))]

\* text.strip().lower()[:50]
Normalized(text) == Prefix(Lower(Strip(text)), normalized_len)

\* own_response without the lower(): the line is compared in its own case
own_response_cased(clean_line, responses) ==
    LET line_normalized == Prefix(Strip(clean_line), normalized_len)
    IN  \E resp_line \in responses :
            /\ line_normalized # << >>
            /\ resp_line # << >>
            /\ \/ StartsWith(line_normalized, resp_line)
               \/ StartsWith(resp_line, line_normalized)

\* the loop over last_response_lines: the line looks like our own response
own_response(clean_line, responses) ==
    LET line_normalized == Normalized(clean_line)
    IN  \E resp_line \in responses :
            /\ line_normalized # << >>
            /\ resp_line # << >>
            /\ \/ StartsWith(line_normalized, resp_line)
               \/ StartsWith(resp_line, line_normalized)

\* the entries respond_to_question adds to last_response_lines, in order:
\* every non-empty normalized line, then the first part of the whole response
response_entries(response) ==
    SelectSeq([i \in 1..Len(SplitNewline(response)) |->
                   Normalized(SplitNewline(response)[i])],
              LAMBDA e : e # << >>)
    \o <<Normalized(response)>>

\* recent_context = '\n'.join(buffer_lines[-15:]).lower()
recent_context(lines) == Lower(Join(LastN(lines, context_lines_n)))

\* in_menu, and is_interactive_menu of respond_to_question
in_menu(ctx) ==
    \/ Contains(ctx, <<"e","n","t","e","r"," ","t","o"," ","s","e","l","e","c","t">>)
    \/ Contains(ctx, <<"t","a","b","/","a","r","r","o","w">>)
    \/ Contains(ctx, <<"a","r","r","o","w"," ","k","e","y","s">>)
    \/ Contains(ctx, <<"e","s","c"," ","t","o"," ","c","a","n","c","e","l">>)

\* has_menu_options
has_menu_options(ctx) ==
    \/ Contains(ctx, <<"1","."," ","y","e","s">>)
    \/ Contains(ctx, <<"U+276F"," ","1",".">>)
    \/ Contains(ctx, <<">"," ","1",".">>)
    \/ Contains(ctx, <<"1",".">>)

\* has_confirm_question
has_confirm_question(ctx) ==
    \/ Contains(ctx, <<"d","o"," ","y","o","u"," ","w","a","n","t"," ","t","o"," ","p","r","o","c","e","e","d">>)
    \/ Contains(ctx, <<"d","o"," ","y","o","u"," ","w","a","n","t"," ","t","o"," ","m","a","k","e">>)
    \/ Contains(ctx, <<"d","o"," ","y","o","u"," ","w","a","n","t"," ","t","o">>)

\* 'enter to select' in clean_lower or 'esc to cancel' in clean_lower
nav_hint(clean_lower) ==
    \/ Contains(clean_lower, <<"e","n","t","e","r"," ","t","o"," ","s","e","l","e","c","t">>)
    \/ Contains(clean_lower, <<"e","s","c"," ","t","o"," ","c","a","n","c","e","l">>)

\* 'esc to' / 'type here to tell' / '3.' / '4.' in clean_lower
last_option_hint(clean_lower) ==
    \/ Contains(clean_lower, <<"e","s","c"," ","t","o">>)
    \/ Contains(clean_lower, <<"t","y","p","e"," ","h","e","r","e"," ","t","o"," ","t","e","l","l">>)
    \/ Contains(clean_lower, <<"3",".">>)
    \/ Contains(clean_lower, <<"4",".">>)

\* menu_trigger: the navigation hint line, or a last menu option with a
\* confirmation question in the context
menu_trigger(lines, clean_line) ==
    LET ctx == recent_context(lines)
        clean_lower == Lower(clean_line)
    IN  \/ in_menu(ctx) /\ nav_hint(clean_lower)
        \/ has_menu_options(ctx) /\ has_confirm_question(ctx) /\ last_option_hint(clean_lower)

\* has_menu_options or has_confirm_question or in_menu
menu_context(lines) ==
    LET ctx == recent_context(lines)
    IN  has_menu_options(ctx) \/ has_confirm_question(ctx) \/ in_menu(ctx)

\* is_interactive_menu that knows the 'tab/arrow' hint only
is_interactive_menu_tab_only(context) ==
    Contains(recent_context(context), <<"t","a","b","/","a","r","r","o","w">>)

\* is_interactive_menu(context_lines)
is_interactive_menu(context) == in_menu(recent_context(context))

\* append_line that cuts the buffer to its last 200 lines
append_line_cut_to_max(lines, clean_line) ==
    LET longer == Append(lines, clean_line)
    IN  IF Len(longer) > buffer_max THEN LastN(longer, buffer_max) ELSE longer

\* buffer_lines.append(clean_line); if len(buffer_lines) > 200: keep the last 100
append_line(lines, clean_line) ==
    LET longer == Append(lines, clean_line)
    IN  IF Len(longer) > buffer_max THEN LastN(longer, buffer_keep) ELSE longer

\* choice_clean = ''.join(c for c in choice if c.isdigit())
choice_clean(choice) == SelectSeq(choice, IsDigit)

\* ------------------------------------------------------------------------
\* What the supervised process prints, what the advisor answers
\* ------------------------------------------------------------------------

\* free-form questions (no question mark)
LinePrefs ==
    <<"D","o"," ","y","o","u"," ","h","a","v","e"," ","a","n","y"," ","p","r","e","f","e","r","e",
        "n","c","e","s">>

LinePlan ==
    <<"S","h","o","u","l","d"," ","I"," ","p","r","o","c","e","e","d"," ","w","i","t","h"," ","t",
        "h","e"," ","p","l","a","n">>

\* the question of the system prompt's first example
LineDatabase ==
    <<"S","h","o","u","l","d"," ","I"," ","u","s","e"," ","P","o","s","t","g","r","e","S","Q","L",
        " ","o","r"," ","M","o","n","g","o","D","B","?">>

\* a confirmation menu as the supervised program draws it
LineConfirm ==
    <<"D","o"," ","y","o","u"," ","w","a","n","t"," ","t","o"," ","p","r","o","c","e","e","d","?">>

LineYes ==
    <<"1","."," ","Y","e","s">>

LineNo ==
    <<"2","."," ","N","o">>

LineNavHint ==
    <<"E","n","t","e","r"," ","t","o"," ","s","e","l","e","c","t",","," ","E","s","c"," ","t","o",
        " ","c","a","n","c","e","l">>

\* answers of the advisor
AnswerProceed ==
    <<"O","K","\n","Y","e","s",","," ","d","o"," ","p","r","o","c","e","e","d">>

AnswerNo ==
    <<"N","o">>

\* what the exception of a failed request prints as
ErrorDetail ==
    <<"t","i","m","e","o","u","t">>

\* return "Error: OPENAI_API_KEY not set"
ErrorNoKey ==
    <<"E","r","r","o","r",":"," ","O","P","E","N","A","I","_","A","P","I","_","K","E","Y"," ","n",
    "o","t"," ","s","e","t">>

\* return f"Error: API request failed - {e}"
ErrorRequest ==
    <<"E","r","r","o","r",":"," ","A","P","I"," ","r","e","q","u","e","s","t"," ","f","a","i","l",
    "e","d"," ","-"," ">> \o ErrorDetail

\* .get("content", "Error: No response")
ErrorNoResponse ==
    <<"E","r","r","o","r",":"," ","N","o"," ","r","e","s","p","o","n","s","e">>

\* outcomes of the request to the advisor: a reply with content, a transport
\* error, no API key configured, a reply whose "choices" list is empty, a
\* reply whose message has no "content" field
Content(text) == [kind |-> "content", content |-> text]

TransportError == [kind |-> "transport", content |-> << >>]

NoCredential == [kind |-> "no_key", content |-> << >>]

EmptyChoices == [kind |-> "empty_choices", content |-> << >>]

NoContentField == [kind |-> "no_content", content |-> << >>]

\* call_chatgpt without the except clause for RequestException
call_chatgpt_transport_raises(outcome) ==
    IF outcome.kind = "no_key" THEN [raised |-> FALSE, text |-> ErrorNoKey]
    ELSE IF outcome.kind \in {"transport", "empty_choices"} THEN [raised |-> TRUE, text |-> << >>]
    ELSE IF outcome.kind = "no_content" THEN [raised |-> FALSE, text |-> ErrorNoResponse]
    ELSE [raised |-> FALSE, text |-> outcome.content]

\* call_chatgpt: the text it returns, or raised: an exception leaves it
\* (data.get("choices", [{}])[0] raises IndexError, which no except clause
\* of call_chatgpt catches)
call_chatgpt(outcome) ==
    IF outcome.kind = "no_key" THEN [raised |-> FALSE, text |-> ErrorNoKey]
    ELSE IF outcome.kind = "transport" THEN [raised |-> FALSE, text |-> ErrorRequest]
    ELSE IF outcome.kind = "empty_choices" THEN [raised |-> TRUE, text |-> << >>]
    ELSE IF outcome.kind = "no_content" THEN [raised |-> FALSE, text |-> ErrorNoResponse]
    ELSE [raised |-> FALSE, text |-> outcome.content]

CRLF == <<"\r", "\n">>

LF == <<"\n">>

ChunkPlan == LinePlan \o LF

ChunkDatabase == LineDatabase \o LF

ChunkPrefs == LinePrefs \o LF

\* a line of 14 characters that begins like a question
LineShort ==
    <<"S","h","o","u","l","d"," ","I"," ","g","o"," ","o","n">>

\* the last line of a menu whose hint is shorter than 15 characters
LineEscHint ==
    <<"E","s","c"," ","t","o"," ","c","a","n","c","e","l">>

ChunkShort == LineShort \o LF

ChunkShortMenu == LineConfirm \o CRLF \o LineYes \o CRLF \o LineNo \o CRLF \o LineEscHint \o CRLF

\* a free-form question that holds a confirmation phrase itself
LineProceedPlan ==
    <<"D","o"," ","y","o","u"," ","w","a","n","t"," ","t","o"," ","p","r","o","c","e","e","d"," ","w",
    "i","t","h"," ","t","h","e"," ","p","l","a","n">>

ChunkProceedPlan == LineProceedPlan \o LF

\* the last option of a menu that is drawn without a navigation hint
LineOther ==
    <<"3","."," ","O","t","h","e","r">>

\* a menu of three options and no hint line
ChunkOptions == LineConfirm \o CRLF \o LineYes \o CRLF \o LineNo \o CRLF \o LineOther \o CRLF

\* one frame of a menu, written at once
ChunkMenu == LineConfirm \o CRLF \o LineYes \o CRLF \o LineNo \o CRLF \o LineNavHint \o CRLF

\* the terminal's echo of typed text: every line of it, each ended by \r\n
RECURSIVE JoinCRLF(_)
JoinCRLF(lines) ==
    IF lines = << >> THEN << >> ELSE lines[1] \o CRLF \o JoinCRLF(Tail(lines))

Echo(text) == JoinCRLF(SplitNewline(text))

\* the menu request's possible outcomes: the reply's content, or the request
\* failed (or there is no API key or no requests library)
MenuReplies ==
    {[ok |-> TRUE, content |-> <<"1">>],
     [ok |-> TRUE, content |-> <<"e","n","t","e","r">>],
     [ok |-> TRUE, content |-> <<"2"," ","o","r"," ","3">>],
     [ok |-> FALSE, content |-> << >>]}

NoReply == [ok |-> FALSE, content |-> << >>]

Pty(data) == [from |-> "pty", data |-> data]

Stdin(data) == [from |-> "stdin", data |-> data]

\* The sessions the model runs: what the supervised process prints and the
\* operator types, in order, and what the advisor may answer.
Session(inputs, answers) == [inputs |-> inputs, answers |-> answers]

Sessions ==
    {Session(<<Pty(ChunkPlan), Pty(ChunkPrefs)>>, {Content(AnswerProceed), Content(AnswerNo)}),
     Session(<<Pty(ChunkPlan), Pty(Echo(AnswerProceed)), Pty(LF)>>, {Content(AnswerProceed)}),
     Session(<<Pty(ChunkPlan), Pty(ChunkMenu)>>, {Content(AnswerNo)}),
     Session(<<Pty(ChunkMenu), Pty(ChunkPlan)>>, {Content(AnswerNo)}),
     Session(<<Stdin(<<"y">>), Pty(ChunkDatabase), Pty(ChunkPlan)>>, {Content(AnswerNo)}),
     Session(<<Pty(ChunkPlan), Pty(ChunkMenu)>>, {TransportError}),
     Session(<<Pty(ChunkPlan)>>, {NoCredential, EmptyChoices, NoContentField}),
     Session(<<Pty(ChunkShort), Pty(ChunkShortMenu)>>, {Content(AnswerNo)}),
     Session(<<Pty(ChunkOptions)>>, {Content(AnswerNo)}),
     Session(<<Pty(ChunkProceedPlan)>>, {Content(AnswerNo)}),
     Session(<<Pty(ChunkPlan), Stdin(<<"y">>)>>, {Content(AnswerNo)})}

\* ------------------------------------------------------------------------
\* The session: the relay loop, handle_output, and the consultation tasks
\* ------------------------------------------------------------------------

VARIABLES
    now,                      \* time.time(), in whole seconds
    inputs,                   \* what the process will print and the operator type
    answers,                  \* what the advisor may answer to a question
    relay_pc,                 \* where the relay loop is: "select", "lines", "classify",
                              \* or "failed": an exception has ended it; before the
                              \* loop "entry", "setup", "fork", after it "finally",
                              \* "returned"
    cur,                      \* handle_output's locals for the line it is judging
    line_buffer,              \* the partial-line accumulator
    buffer_lines,             \* the rolling buffer
    listening_started,
    last_response_lines,
    last_question_time,
    response_cooldown_until,
    user_typing_until,        \* in half seconds (the window is 0.5 s long)
    tasks,                    \* the respond_to_question threads, in dispatch order
    verdict,                  \* history: what handle_output did with the last line
    history,                  \* history: what was read from the PTY and split off
    proc,                     \* the platform, the terminal and the processes
    last_output_time,
    inactivity_warned,
    qline, qresult, qpc       \* a function called alone: input, result, position

vars == <<now, inputs, answers, relay_pc, cur, line_buffer, buffer_lines, listening_started,
          last_response_lines, last_question_time, response_cooldown_until,
          user_typing_until, tasks, verdict, history, proc, last_output_time,
          inactivity_warned, qline, qresult, qpc>>

session_vars == <<now, inputs, answers, relay_pc, cur, line_buffer, buffer_lines,
                  listening_started, last_response_lines, last_question_time,
                  response_cooldown_until, user_typing_until, tasks, verdict, history,
                  proc, last_output_time, inactivity_warned>>

classifier_vars == <<qline, qresult, qpc>>

\* proc.platform, proc.key (config.openai_api_key is set) and proc.spawn (what
\* pty.fork and os.execlp will do) are given; proc.tty is the mode of the
\* operator's terminal, proc.effects what the session has done outside itself,
\* proc.reports how many errors it has printed, proc.child the supervised
\* process, proc.status what autonomous_mode returned (-1: it has not), and
\* proc.alive is false once the interpreter has exited.
\* Running: a session in its relay loop
Running ==
    [platform |-> "posix", key |-> TRUE, spawn |-> "ok", tty |-> "raw",
     effects |-> {"banner", "buffer_file", "session_log", "pty", "child", "raw"},
     reports |-> 0, child |-> "running", cause |-> "none", status |-> -1, alive |-> TRUE]

NoLine == [clean_line |-> << >>, menu_trigger |-> FALSE, pending |-> {}]

\* verdict.result is "blank", "own_response", "response_cooldown",
\* "question_cooldown", "ignore", "menu" or "question"; the other fields are
\* what the pass knew when it decided
NoVerdict ==
    [line |-> << >>, result |-> "none", trigger |-> FALSE, listening |-> FALSE,
     context |-> FALSE, since |-> 0]

Verdict(clean_line, result, trigger, lines, listening) ==
    [line |-> clean_line, result |-> result, trigger |-> trigger,
     listening |-> listening, context |-> menu_context(lines),
     since |-> now - last_question_time]

\* history.received: all the text read from the PTY; history.taken: the text
\* split off the accumulator, separators included; history.lines: how many
\* lines were split off; history.deferred: complete lines have been left in
\* the accumulator by a return; history.torn: the last scan of
\* last_response_lines ran while a task was between clear() and its last add();
\* history.returned: the return the last call of handle_output took before the
\* end of its loop ("typing", "echo", or "none"); history.warnings: how many
\* inactivity warnings were raised since the last processed line,
\* history.idle: the time without output at the last of them, and
\* history.written: every byte written to master_fd, in the order of the
\* writes, with its writer (0 is the relay loop, i is task i);
\* history.notices: how often watch mode has reported a question
NoHistory ==
    [received |-> << >>, taken |-> << >>, lines |-> 0, deferred |-> FALSE, torn |-> FALSE,
     returned |-> "none", warnings |-> 0, idle |-> 0, written |-> << >>,
     notices |-> 0]

\* os.write(master_fd, data) by the writer
Written(by, data) == [k \in 1..Len(data) |-> [by |-> by, char |-> data[k]]]

\* response_muted without the exemption of menus
response_muted_menus_too(trigger, time, until) == time < until

\* if time.time() < response_cooldown_until and not menu_trigger
response_muted(trigger, time, until) == time < until /\ ~trigger

\* the locals of autonomous_mode as lines 473 to 486 set them
LocalsInit(session) ==
    /\ now = start_time
    /\ inputs = session.inputs
    /\ answers = session.answers
    /\ cur = NoLine
    /\ line_buffer = << >>
    /\ buffer_lines = << >>
    /\ listening_started = FALSE
    /\ last_response_lines = {}
    /\ last_question_time = 0
    /\ response_cooldown_until = 0
    /\ user_typing_until = 0
    /\ tasks = << >>
    /\ verdict = NoVerdict
    /\ history = NoHistory
    /\ last_output_time = start_time
    /\ inactivity_warned = FALSE

\* the state of autonomous_mode when the relay loop starts
SessionInit(session) ==
    /\ LocalsInit(session)
    /\ relay_pc = "select"
    /\ proc = Running

ClassifierIdle == qline = << >> /\ qresult = FALSE /\ qpc = "idle"

Init == (\E session \in Sessions : SessionInit(session)) /\ ClassifierIdle

\* a thread is at a point where it waits: on the advisor, in time.sleep(
\* response_delay), or it has returned, or an exception has ended it
Waiting(t) == t.pc \in {"ask", "menu_call", "sleep", "menu_sleep", "done", "died"}

\* the instants at which a comparison of the code with the clock changes
Deadlines ==
    {start_time + startup_delay,
     last_question_time + menu_cooldown,
     last_question_time + cooldown_seconds,
     response_cooldown_until,
     (user_typing_until + 1) \div 2}
    \cup {tasks[i].wake : i \in 1..Len(tasks)}

\* The clock advances to the next such instant.  The steps of handle_output
\* and the sub-second pauses of a task take no time on this clock.
Tick ==
    /\ relay_pc = "select"
    /\ \A i \in 1..Len(tasks) : Waiting(tasks[i])
    /\ \E d \in Deadlines :
          /\ d > now
          /\ d <= start_time + MaxTime
          /\ \A e \in Deadlines : e > now => d <= e
          /\ now' = d
    /\ UNCHANGED <<inputs, answers, relay_pc, cur, line_buffer, buffer_lines,
                   listening_started, last_response_lines, last_question_time,
                   response_cooldown_until, user_typing_until, tasks, verdict, history,
                   proc, last_output_time, inactivity_warned>>

\* the relay loop reads operator input and forwards it to the PTY
ReadStdin ==
    /\ relay_pc = "select"
    /\ inputs # << >>
    /\ Head(inputs).from = "stdin"
    /\ inputs' = Tail(inputs)
    /\ history' = [history EXCEPT !.written = @ \o Written(0, Head(inputs).data)]
    /\ user_typing_until' = 2 * now + 1
    /\ UNCHANGED <<now, answers, relay_pc, cur, line_buffer, buffer_lines,
                   listening_started, last_response_lines, last_question_time,
                   response_cooldown_until, tasks, verdict, proc,
                   last_output_time, inactivity_warned>>

\* ReadPty that returns during the typing window before it has added the
\* chunk to line_buffer
ReadPty_drops_while_typing ==
    /\ relay_pc = "select"
    /\ inputs # << >>
    /\ Head(inputs).from = "pty"
    /\ inputs' = Tail(inputs)
    /\ line_buffer' = IF 2 * now < user_typing_until THEN line_buffer
                      ELSE line_buffer \o Head(inputs).data
    /\ relay_pc' = IF 2 * now < user_typing_until \/ ~HasSeparator(line_buffer')
                   THEN "select" ELSE "lines"
    /\ history' = [history EXCEPT
                       !.received = @ \o Head(inputs).data,
                       !.returned = IF 2 * now < user_typing_until THEN "typing"
                                    ELSE "none",
                       !.deferred = @ \/ (2 * now < user_typing_until
                                            /\ HasSeparator(line_buffer'))]
    /\ UNCHANGED <<now, answers, cur, buffer_lines, listening_started,
                   last_response_lines, last_question_time, response_cooldown_until,
                   user_typing_until, tasks, verdict, proc, last_output_time,
                   inactivity_warned>>

\* ReadPty of a relay loop that runs the consultation itself: no chunk is
\* read until every task has finished
ReadPty_after_tasks ==
    /\ relay_pc = "select"
    /\ \A i \in 1..Len(tasks) : tasks[i].pc \in {"done", "died"}
    /\ inputs # << >>
    /\ Head(inputs).from = "pty"
    /\ inputs' = Tail(inputs)
    /\ line_buffer' = line_buffer \o Head(inputs).data
    /\ relay_pc' = IF 2 * now < user_typing_until \/ ~HasSeparator(line_buffer')
                   THEN "select" ELSE "lines"
    /\ history' = [history EXCEPT
                       !.received = @ \o Head(inputs).data,
                       !.returned = IF 2 * now < user_typing_until THEN "typing"
                                    ELSE "none",
                       !.deferred = @ \/ (2 * now < user_typing_until
                                            /\ HasSeparator(line_buffer'))]
    /\ UNCHANGED <<now, answers, cur, buffer_lines, listening_started,
                   last_response_lines, last_question_time, response_cooldown_until,
                   user_typing_until, tasks, verdict, proc, last_output_time,
                   inactivity_warned>>

\* the relay loop reads a chunk from the PTY; handle_output(data) up to its
\* loop over complete lines
ReadPty ==
    /\ relay_pc = "select"
    /\ inputs # << >>
    /\ Head(inputs).from = "pty"
    /\ inputs' = Tail(inputs)
    /\ line_buffer' = line_buffer \o Head(inputs).data
    /\ relay_pc' = IF 2 * now < user_typing_until \/ ~HasSeparator(line_buffer')
                   THEN "select" ELSE "lines"
    /\ history' = [history EXCEPT
                       !.received = @ \o Head(inputs).data,
                       !.returned = IF 2 * now < user_typing_until THEN "typing"
                                    ELSE "none",
                       !.deferred = @ \/ (2 * now < user_typing_until
                                            /\ HasSeparator(line_buffer'))]
    /\ UNCHANGED <<now, answers, cur, buffer_lines, listening_started,
                   last_response_lines, last_question_time, response_cooldown_until,
                   user_typing_until, tasks, verdict, proc, last_output_time,
                   inactivity_warned>>

\* back to the head of the while loop, or out of handle_output
NextLinePc(buf) == IF HasSeparator(buf) THEN "lines" ELSE "select"

\* handle_output, one pass of the loop from the split to the response
\* cooldown check
TakeLine ==
    /\ relay_pc = "lines"
    /\ LET split == SplitLine(line_buffer)
           clean_line == clean_ansi(split.line)
           lines == append_line(buffer_lines, clean_line)
           listening == listening_started \/ now - start_time >= startup_delay
           trigger == menu_trigger(lines, clean_line)
           returns == Strip(clean_line) # << >>
                          /\ own_response(clean_line, last_response_lines)
       IN  /\ line_buffer' = split.rest
           /\ history' = [history EXCEPT
                              !.taken = @ \o split.line \o Separator(line_buffer),
                              !.lines = @ + 1,
                              !.returned = IF returns THEN "echo" ELSE @,
                              !.warnings = IF Strip(clean_line) = << >> THEN @ ELSE 0,
                              !.deferred = @ \/ (returns /\ HasSeparator(split.rest)),
                              !.torn = IF Strip(clean_line) = << >> THEN @
                                       ELSE \E i \in 1..Len(tasks) : tasks[i].pc = "fill"]
           /\ IF Strip(clean_line) = << >>
              THEN \* continue
                   /\ relay_pc' = NextLinePc(split.rest)
                   /\ verdict' = Verdict(clean_line, "blank", FALSE, buffer_lines,
                                         listening_started)
                   /\ UNCHANGED <<buffer_lines, listening_started, cur, last_output_time,
                                  inactivity_warned>>
              ELSE /\ last_output_time' = now
                   /\ inactivity_warned' = FALSE
                   /\ buffer_lines' = lines
                   /\ listening_started' = listening
                   /\ IF own_response(clean_line, last_response_lines)
                      THEN \* return
                           /\ relay_pc' = "select"
                           /\ verdict' = Verdict(clean_line, "own_response", FALSE,
                                                 lines, listening)
                           /\ UNCHANGED cur
                      ELSE IF response_muted(trigger, now, response_cooldown_until)
                      THEN \* continue
                           /\ relay_pc' = NextLinePc(split.rest)
                           /\ verdict' = Verdict(clean_line, "response_cooldown",
                                                 trigger, lines, listening)
                           /\ UNCHANGED cur
                      ELSE /\ relay_pc' = "classify"
                           /\ cur' = [clean_line |-> clean_line,
                                      menu_trigger |-> trigger,
                                      pending |-> last_response_lines]
                           /\ UNCHANGED verdict
    /\ UNCHANGED <<now, inputs, answers, last_response_lines, last_question_time,
                   response_cooldown_until, user_typing_until, tasks, proc>>

\* for resp_line in last_response_lines: a task that adds to the set while
\* the loop runs makes the iteration raise RuntimeError (set changed size
\* during iteration); autonomous_mode's "except Exception" prints the error
\* and returns 1, which ends the session
ScanFails ==
    /\ relay_pc = "lines"
    /\ \E i \in 1..Len(tasks) : tasks[i].pc = "fill"
    /\ LET split == SplitLine(line_buffer)
           clean_line == clean_ansi(split.line)
       IN  /\ Strip(clean_line) # << >>
           /\ line_buffer' = split.rest
           /\ buffer_lines' = append_line(buffer_lines, clean_line)
           /\ listening_started' =
                  (listening_started \/ now - start_time >= startup_delay)
           /\ history' = [history EXCEPT
                              !.taken = @ \o split.line \o Separator(line_buffer),
                              !.lines = @ + 1,
                              !.warnings = 0,
                              !.torn = TRUE]
    /\ last_output_time' = now
    /\ inactivity_warned' = FALSE
    /\ relay_pc' = "failed"
    /\ UNCHANGED <<now, inputs, answers, cur, last_response_lines, last_question_time,
                   response_cooldown_until, user_typing_until, tasks, verdict, proc>>

\* history: when the last answer so far was completely written (0: none yet)
Injected ==
    LET times == {tasks[i].finished : i \in 1..Len(tasks)} \cup {0}
    IN  CHOOSE m \in times : \A n \in times : n <= m

\* NewTask that hands the task the window of the last 15 lines instead of a
\* copy of the buffer
NewTask_window_only(clean_line, context, kind) ==
    [question |-> clean_line,
     context |-> LastN(context, context_lines_n),
     kind |-> kind,
     born |-> now,
     line_no |-> history.lines,
     pending |-> cur.pending,
     muted |-> now < response_cooldown_until,
     last_injection |-> Injected,
     path |-> IF is_interactive_menu(context) THEN "menu" ELSE "free",
     pc |-> IF is_interactive_menu(context) THEN "menu_call" ELSE "ask",
     outcome |-> "none",
     reply |-> NoReply,
     response |-> << >>,
     to_add |-> << >>,
     alone |-> TRUE,
     set_after |-> {},
     wake |-> 0,
     stored |-> FALSE,
     armed |-> FALSE,
     out |-> << >>,
     finished |-> 0]

\* threading.Thread(target=respond_to_question, args=(clean_line,
\* list(buffer_lines), config, master_fd)).start()
NewTask(clean_line, context, kind) ==
    [question |-> clean_line,
     context |-> context,
     kind |-> kind,
     born |-> now,
     line_no |-> history.lines,
     pending |-> cur.pending,
     muted |-> now < response_cooldown_until,
     last_injection |-> Injected,
     path |-> IF is_interactive_menu(context) THEN "menu" ELSE "free",
     pc |-> IF is_interactive_menu(context) THEN "menu_call" ELSE "ask",
     outcome |-> "none",
     reply |-> NoReply,
     response |-> << >>,
     to_add |-> << >>,
     alone |-> TRUE,
     set_after |-> {},
     wake |-> 0,
     stored |-> FALSE,
     armed |-> FALSE,
     out |-> << >>,
     finished |-> 0]

\* should_respond that asks is_question in a menu context too
should_respond_any_context(clean_line, trigger, lines, listening) ==
    IF ~listening THEN "ignore"
    ELSE IF trigger THEN "menu"
    ELSE IF is_question(clean_line) THEN "question"
    ELSE "ignore"

\* should_respond without the test of listening_started
should_respond_before_listening(clean_line, trigger, lines, listening) ==
    IF trigger THEN "menu"
    ELSE IF ~menu_context(lines) /\ is_question(clean_line) THEN "question"
    ELSE "ignore"

\* should_respond, and which branch set it
should_respond(clean_line, trigger, lines, listening) ==
    IF ~listening THEN "ignore"
    ELSE IF trigger THEN "menu"
    ELSE IF ~menu_context(lines) /\ is_question(clean_line) THEN "question"
    ELSE "ignore"

\* cooldown_over with the two intervals swapped
cooldown_over_swapped(trigger, time_since_last) ==
    ~(time_since_last < (IF trigger THEN cooldown_seconds ELSE menu_cooldown))

\* cooldown_over that lets every menu trigger through
cooldown_over_menus_free(trigger, time_since_last) ==
    trigger \/ ~(time_since_last < cooldown_seconds)

\* the cooldown between questions lets the line through
cooldown_over(trigger, time_since_last) ==
    ~(time_since_last < (IF trigger THEN menu_cooldown ELSE cooldown_seconds))

\* handle_output, the rest of the pass: the cooldown between questions, the
\* classification and the dispatch
Classify ==
    /\ relay_pc = "classify"
    /\ relay_pc' = NextLinePc(line_buffer)
    /\ cur' = NoLine
    /\ LET kind == should_respond(cur.clean_line, cur.menu_trigger, buffer_lines,
                                  listening_started)
           result == IF ~cooldown_over(cur.menu_trigger, now - last_question_time)
                     THEN "question_cooldown" ELSE kind
       IN  /\ verdict' = Verdict(cur.clean_line, result, cur.menu_trigger,
                                 buffer_lines, listening_started)
           /\ IF result \in {"menu", "question"}
              THEN /\ last_question_time' = now
                   /\ tasks' = Append(tasks,
                                      NewTask(cur.clean_line, buffer_lines, result))
              ELSE UNCHANGED <<last_question_time, tasks>>
    /\ UNCHANGED <<now, inputs, answers, line_buffer, buffer_lines, listening_started,
                   last_response_lines, response_cooldown_until, user_typing_until,
                   history, proc, last_output_time, inactivity_warned>>

TaskFrame ==
    UNCHANGED <<now, inputs, answers, relay_pc, cur, line_buffer, buffer_lines,
                listening_started, last_question_time, user_typing_until, verdict,
                proc, last_output_time, inactivity_warned>>

\* a step of a task that writes nothing to master_fd
TaskUnchanged == TaskFrame /\ UNCHANGED history

\* a step of task i that writes data to master_fd
TaskWrites(i, data) ==
    /\ history' = [history EXCEPT !.written = @ \o Written(i, data)]
    /\ TaskFrame

\* TaskAnswer without last_response_lines.clear()
TaskAnswer_merges(i, outcome) ==
    /\ tasks[i].pc = "ask"
    /\ ~call_chatgpt(outcome).raised
    /\ tasks' = [tasks EXCEPT ![i].pc = "fill",
                              ![i].outcome = outcome.kind,
                              ![i].response = call_chatgpt(outcome).text,
                              ![i].to_add = response_entries(call_chatgpt(outcome).text),
                              ![i].alone = \A k \in 1..Len(tasks) : tasks[k].pc # "fill"]
    /\ UNCHANGED <<last_response_lines, response_cooldown_until>>
    /\ TaskUnchanged

\* response = call_chatgpt(...); last_response_lines.clear()
\* (alone: no other task is between its clear() and its last add())
TaskAnswer(i, outcome) ==
    /\ tasks[i].pc = "ask"
    /\ LET result == call_chatgpt(outcome)
       IN  IF result.raised
           THEN /\ tasks' = [tasks EXCEPT ![i].pc = "died", ![i].outcome = outcome.kind]
                /\ UNCHANGED last_response_lines
           ELSE /\ last_response_lines' = {}
                /\ tasks' = [j \in 1..Len(tasks) |->
                                IF j = i
                                THEN [tasks[i] EXCEPT
                                         !.pc = "fill",
                                         !.outcome = outcome.kind,
                                         !.response = result.text,
                                         !.to_add = response_entries(result.text),
                                         !.alone = \A k \in 1..Len(tasks) :
                                                       tasks[k].pc # "fill"]
                                ELSE IF tasks[j].pc = "fill"
                                THEN [tasks[j] EXCEPT !.alone = FALSE]
                                ELSE tasks[j]]
    /\ UNCHANGED response_cooldown_until
    /\ TaskUnchanged

\* last_response_lines.add(...): one entry; after the last one the task
\* starts time.sleep(cfg.response_delay)
TaskAdd(i) ==
    /\ tasks[i].pc = "fill"
    /\ last_response_lines' = last_response_lines \cup {Head(tasks[i].to_add)}
    /\ tasks' = IF Len(tasks[i].to_add) > 1
                THEN [tasks EXCEPT ![i].to_add = Tail(@)]
                ELSE [tasks EXCEPT ![i].to_add = << >>,
                                   ![i].stored = TRUE,
                                   ![i].set_after = last_response_lines',
                                   ![i].pc = "sleep",
                                   ![i].wake = now + response_delay]
    /\ UNCHANGED response_cooldown_until
    /\ TaskUnchanged

\* TaskArm that goes on to type without arming response_cooldown_until
TaskArm_unarmed(i) ==
    /\ tasks[i].pc = "sleep"
    /\ now >= tasks[i].wake
    /\ tasks' = [tasks EXCEPT ![i].pc = IF tasks[i].response = << >> THEN "cr" ELSE "type"]
    /\ UNCHANGED <<last_response_lines, response_cooldown_until>>
    /\ TaskUnchanged

\* response_cooldown_until = time.time() + 10
TaskArm(i) ==
    /\ tasks[i].pc = "sleep"
    /\ now >= tasks[i].wake
    /\ response_cooldown_until' = now + response_cooldown
    /\ tasks' = [tasks EXCEPT ![i].armed = TRUE,
                              ![i].pc = IF tasks[i].response = << >> THEN "cr" ELSE "type"]
    /\ UNCHANGED last_response_lines
    /\ TaskUnchanged

\* for char in response: os.write(fd, char.encode()); time.sleep(0.01)
\* (the loop as one step: the relay loop and the other tasks read nothing
\* these writes change, and the writes of others that can fall between two
\* characters can fall between the last character and the '\\r' as well)
TaskType(i) ==
    /\ tasks[i].pc = "type"
    /\ tasks' = [tasks EXCEPT ![i].out = @ \o tasks[i].response, ![i].pc = "cr"]
    /\ UNCHANGED <<last_response_lines, response_cooldown_until>>
    /\ TaskWrites(i, tasks[i].response)

\* os.write(fd, b'\r')
TaskReturn(i) ==
    /\ tasks[i].pc = "cr"
    /\ tasks' = [tasks EXCEPT ![i].out = Append(@, "\r"), ![i].pc = "lf"]
    /\ UNCHANGED <<last_response_lines, response_cooldown_until>>
    /\ TaskWrites(i, <<"\r">>)

\* os.write(fd, b'\n')
TaskNewline(i) ==
    /\ tasks[i].pc = "lf"
    /\ tasks' = [tasks EXCEPT ![i].out = Append(@, "\n"),
                              ![i].pc = "done",
                              ![i].finished = now]
    /\ UNCHANGED <<last_response_lines, response_cooldown_until>>
    /\ TaskWrites(i, <<"\n">>)

\* the menu request returns (or fails: choice = "1"); choice_clean is computed
\* and the task starts time.sleep(cfg.response_delay)
TaskMenuReply(i, reply) ==
    /\ tasks[i].pc = "menu_call"
    /\ tasks' = [tasks EXCEPT ![i].reply = reply,
                              ![i].response =
                                  choice_clean(IF reply.ok THEN Strip(reply.content)
                                               ELSE <<"1">>),
                              ![i].pc = "menu_sleep",
                              ![i].wake = now + response_delay]
    /\ UNCHANGED <<last_response_lines, response_cooldown_until>>
    /\ TaskUnchanged

\* response_cooldown_until = time.time() + 15
TaskMenuArm(i) ==
    /\ tasks[i].pc = "menu_sleep"
    /\ now >= tasks[i].wake
    /\ response_cooldown_until' = now + menu_response_cooldown
    /\ tasks' = [tasks EXCEPT ![i].armed = TRUE,
                              ![i].pc = IF tasks[i].response = << >>
                                        THEN "menu_enter" ELSE "menu_type"]
    /\ UNCHANGED last_response_lines
    /\ TaskUnchanged

\* os.write(fd, choice_clean.encode())
TaskMenuType(i) ==
    /\ tasks[i].pc = "menu_type"
    /\ tasks' = [tasks EXCEPT ![i].out = @ \o tasks[i].response, ![i].pc = "menu_enter"]
    /\ UNCHANGED <<last_response_lines, response_cooldown_until>>
    /\ TaskWrites(i, tasks[i].response)

\* os.write(fd, b'\r'); return
TaskMenuEnter(i) ==
    /\ tasks[i].pc = "menu_enter"
    /\ tasks' = [tasks EXCEPT ![i].out = Append(@, "\r"),
                              ![i].pc = "done",
                              ![i].finished = now]
    /\ UNCHANGED <<last_response_lines, response_cooldown_until>>
    /\ TaskWrites(i, <<"\r">>)

Next ==
    \/ Tick /\ UNCHANGED classifier_vars
    \/ ReadStdin /\ UNCHANGED classifier_vars
    \/ ReadPty /\ UNCHANGED classifier_vars
    \/ TakeLine /\ UNCHANGED classifier_vars
    \/ ScanFails /\ UNCHANGED classifier_vars
    \/ Classify /\ UNCHANGED classifier_vars
    \/ \E i \in 1..Len(tasks) : \E r \in answers : TaskAnswer(i, r) /\ UNCHANGED classifier_vars
    \/ \E i \in 1..Len(tasks) : TaskAdd(i) /\ UNCHANGED classifier_vars
    \/ \E i \in 1..Len(tasks) : TaskArm(i) /\ UNCHANGED classifier_vars
    \/ \E i \in 1..Len(tasks) : TaskType(i) /\ UNCHANGED classifier_vars
    \/ \E i \in 1..Len(tasks) : TaskReturn(i) /\ UNCHANGED classifier_vars
    \/ \E i \in 1..Len(tasks) : TaskNewline(i) /\ UNCHANGED classifier_vars
    \/ \E i \in 1..Len(tasks) : \E r \in MenuReplies : TaskMenuReply(i, r) /\ UNCHANGED classifier_vars
    \/ \E i \in 1..Len(tasks) : TaskMenuArm(i) /\ UNCHANGED classifier_vars
    \/ \E i \in 1..Len(tasks) : TaskMenuType(i) /\ UNCHANGED classifier_vars
    \/ \E i \in 1..Len(tasks) : TaskMenuEnter(i) /\ UNCHANGED classifier_vars

Spec == Init /\ [][Next]_vars

\* ------------------------------------------------------------------------
\* The classifier alone: is_question applied to one line
\* ------------------------------------------------------------------------

\* the lines of src/test_hansel.py's TestQuestionDetection, and of the scenarios
TestLines ==
    {<<"S","h","o","u","l","d"," ","I"," ","u","s","e"," ","P","o","s","t","g","r","e","S","Q","L",
          "?">>,
     <<"W","h","a","t"," ","d","o"," ","y","o","u"," ","t","h","i","n","k","?">>,
     <<"I","s"," ","t","h","i","s"," ","c","o","r","r","e","c","t","?"," "," ">>,
     <<"W","o","u","l","d"," ","y","o","u"," ","l","i","k","e"," ","m","e"," ","t","o"," ","p","r",
          "o","c","e","e","d","?">>,
     <<"W","o","u","l","d"," ","y","o","u"," ","p","r","e","f","e","r"," ","o","p","t","i","o","n",
          " ","A"," ","o","r"," ","B","?">>,
     <<"D","o"," ","y","o","u"," ","w","a","n","t"," ","m","e"," ","t","o"," ","c","o","n","t","i",
          "n","u","e","?">>,
     <<"D","o"," ","y","o","u"," ","h","a","v","e"," ","a","n","y"," ","p","r","e","f","e","r","e",
          "n","c","e","s","?">>,
     <<"S","h","o","u","l","d"," ","I"," ","u","s","e"," ","E","x","p","r","e","s","s"," ","o","r",
          " ","F","a","s","t","i","f","y","?">>,
     <<"S","h","o","u","l","d"," ","I"," ","c","r","e","a","t","e"," ","a"," ","n","e","w"," ","f",
          "i","l","e","?">>,
     <<"W","h","a","t"," ","f","r","a","m","e","w","o","r","k"," ","s","h","o","u","l","d"," ","w",
          "e"," ","u","s","e","?">>,
     <<"H","o","w"," ","s","h","o","u","l","d"," ","I"," ","s","t","r","u","c","t","u","r","e"," ",
          "t","h","i","s","?">>,
     <<"W","h","i","c","h"," ","o","p","t","i","o","n"," ","i","s"," ","b","e","t","t","e","r","?">>,
     <<"S","h","a","l","l"," ","I"," ","p","r","o","c","e","e","d"," ","w","i","t","h"," ","t","h",
          "i","s","?">>,
     <<"S","h","o","u","l","d"," ","I"," ","c","o","n","t","i","n","u","e"," ","w","i","t","h"," ",
          "t","h","e"," ","i","m","p","l","e","m","e","n","t","a","t","i","o","n","?">>,
     <<"#"," ","W","h","a","t"," ","i","s"," ","t","h","i","s"," ","c","o","m","m","e","n","t","?">>,
     <<"/","/"," ","S","h","o","u","l","d"," ","I"," ","f","i","x"," ","t","h","i","s","?">>,
     <<"i","m","p","o","r","t"," ","w","h","a","t","_","m","o","d","u","l","e">>,
     <<"f","r","o","m"," ","w","h","e","r","e"," ","i","m","p","o","r","t"," ","s","o","m","e","t",
          "h","i","n","g">>,
     <<"d","e","f"," ","h","o","w","_","t","o","_","d","o","(",")",":">>,
     <<"c","l","a","s","s"," ","W","h","a","t","C","l","a","s","s",":">>,
     <<"+"," ","S","h","o","u","l","d"," ","t","h","i","s"," ","b","e"," ","a","d","d","e","d","?">>,
     <<"-"," ","W","h","a","t"," ","w","a","s"," ","r","e","m","o","v","e","d","?">>,
     << >>,
     <<" "," "," ">>,
     <<"c","o","n","s","t"," ","x"," ","="," ","a"," ","?"," ","b"," ",":"," ","c">>,
     <<"I","s"," ","t","h","i","s"," ","r","i","g","h","t"," ","(","y","/","n",")","?">>,
     <<"W","h","a","t"," ","s","h","o","u","l","d"," ","I"," ","d","o"," ","n","e","x","t"," ","?">>}

LineTernary ==
    <<"c","o","n","s","t"," ","x"," ","="," ","a"," ","?"," ","b"," ",":"," ","c">>

\* lines put together from an opening and a tail
Openings ==
    {<<"W","o","u","l","d"," ","y","o","u"," ">>,
     <<"D","o"," ","y","o","u"," ">>,
     <<"S","h","o","u","l","d"," ","I"," ">>,
     <<"W","h","a","t"," ","d","o"," ","y","o","u"," ">>,
     <<"L","e","t"," ","m","e"," ">>,
     <<"#"," ">>,
     <<"/","/"," ">>,
     <<"+"," ">>,
     <<"-"," ">>,
     <<"i","m","p","o","r","t"," ">>,
     <<"c","o","n","s","t"," ","x"," ","="," ">>,
     <<" "," ">>,
     <<"1","."," ">>}

Tails ==
    {<<"l","i","k","e"," ","m","e"," ","t","o"," ","p","r","o","c","e","e","d","?">>,
     <<"t","h","i","n","k"," ","a","b","o","u","t"," ","t","h","i","s">>,
     <<"u","s","e"," ","P","o","s","t","g","r","e","S","Q","L"," ","(","y","/","n",")","?">>,
     <<"a"," ","?"," ","b"," ",":"," ","c">>,
     <<"f","i","x"," ","t","h","i","s"," ","o","n","e","?"," ">>,
     <<"w","a","n","t"," ","m","e"," ","t","o"," ","g","o"," ","o","n"," ","[","Y","/","n","]">>,
     <<"p","r","e","s","s"," ","E","n","t","e","r"," ","t","o"," ","s","e","l","e","c","t">>}

QuestionInputs == TestLines \cup {LinePlan, LinePrefs, LineDatabase} \cup {a \o b : a \in Openings, b \in Tails}

\* no session runs beside the classifier
NoSession == Session(<< >>, {})

InitClassifier ==
    /\ SessionInit(NoSession)
    /\ qline \in QuestionInputs
    /\ qresult = FALSE
    /\ qpc = "input"

\* result = is_question(line)
CallIsQuestion ==
    /\ qpc = "input"
    /\ qresult' = is_question(qline)
    /\ qpc' = "done"
    /\ UNCHANGED <<qline, session_vars>>

NextClassifier == CallIsQuestion

SpecClassifier == InitClassifier /\ [][NextClassifier]_vars

\* ------------------------------------------------------------------------
\* The rolling buffer of a session that has already printed many lines
\* ------------------------------------------------------------------------

\* a number in decimal digits
RECURSIVE Decimal(_)
Decimal(n) ==
    LET digit == <<"0","1","2","3","4","5","6","7","8","9">>[(n % 10) + 1]
    IN  IF n < 10 THEN <<digit>> ELSE Append(Decimal(n \div 10), digit)

\* the n-th line the supervised process prints
OutLine(n) == <<"u","n","i","t"," ">> \o Decimal(n)

OutLines(n) == [i \in 1..n |-> OutLine(i)]

\* the session has printed n lines so far, all read and processed, and
\* prints three more (history keeps the text read from here on)
PrintedSession(n) ==
    Session(<<Pty(OutLine(n + 1) \o CRLF \o OutLine(n + 2) \o CRLF),
              Pty(OutLine(n + 3) \o CRLF)>>, {})

InitBuffer ==
    \E n \in 0..buffer_max :
        /\ now = start_time
        /\ inputs = PrintedSession(n).inputs
        /\ answers = PrintedSession(n).answers
        /\ relay_pc = "select"
        /\ cur = NoLine
        /\ line_buffer = << >>
        /\ buffer_lines = OutLines(n)
        /\ listening_started = FALSE
        /\ last_response_lines = {}
        /\ last_question_time = 0
        /\ response_cooldown_until = 0
        /\ user_typing_until = 0
        /\ tasks = << >>
        /\ verdict = NoVerdict
        /\ history = [NoHistory EXCEPT !.lines = n]
        /\ proc = Running
        /\ last_output_time = start_time
        /\ inactivity_warned = FALSE
        /\ ClassifierIdle

NextBuffer ==
    \/ ReadPty /\ UNCHANGED classifier_vars
    \/ TakeLine /\ UNCHANGED classifier_vars
    \/ Classify /\ UNCHANGED classifier_vars

SpecBuffer == InitBuffer /\ [][NextBuffer]_vars

\* ------------------------------------------------------------------------
\* The normalizer alone: one chunk with separators of several kinds
\* ------------------------------------------------------------------------

\* how many characters the chunk has at most
MaxChunk == 5

SplitAlphabet == {"a", "\r", "\n"}

\* every text of at most n characters of SplitAlphabet
RECURSIVE TextsUpTo(_)
TextsUpTo(n) ==
    IF n = 0 THEN {<< >>}
    ELSE LET shorter == TextsUpTo(n - 1)
         IN  shorter \cup {Append(t, c) : t \in shorter, c \in SplitAlphabet}

MixedChunks == TextsUpTo(MaxChunk)

\* the supervised process prints one chunk, before the startup delay is over
InitNormalizer ==
    /\ \E text \in MixedChunks : SessionInit(Session(<<Pty(text)>>, {}))
    /\ ClassifierIdle

SpecNormalizer == InitNormalizer /\ [][NextBuffer]_vars

\* ------------------------------------------------------------------------
\* clean_ansi alone
\* ------------------------------------------------------------------------

DEL == "U+007F"

\* how many pieces a text is put together from at most
MaxPieces == 3

\* the beginnings, middles and ends of the sequences clean_ansi knows, and
\* characters it removes or keeps
AnsiPieces ==
    {<<ESC, "[">>, <<"1", ";">>, <<"m">>, <<ESC, "]">>, <<BEL>>, <<ESC, "\\">>,
     <<ESC, "P">>, <<ESC>>, <<"\r">>, <<"\n">>, <<"\t">>, <<DEL>>, <<"a">>}

RECURSIVE PiecedTexts(_)
PiecedTexts(n) ==
    IF n = 0 THEN {<< >>}
    ELSE LET shorter == PiecedTexts(n - 1)
         IN  shorter \cup {t \o piece : t \in shorter, piece \in AnsiPieces}

AnsiTexts == PiecedTexts(MaxPieces)

InitAnsi ==
    /\ SessionInit(NoSession)
    /\ qline \in AnsiTexts
    /\ qresult = << >>
    /\ qpc = "input"

\* result = clean_ansi(text)
CallCleanAnsi ==
    /\ qpc = "input"
    /\ qresult' = clean_ansi(qline)
    /\ qpc' = "done"
    /\ UNCHANGED <<qline, session_vars>>

NextAnsi == CallCleanAnsi

SpecAnsi == InitAnsi /\ [][NextAnsi]_vars

\* ------------------------------------------------------------------------
\* autonomous_mode from its call to the exit of the interpreter
\* ------------------------------------------------------------------------

\* what the steps before and after the relay loop leave alone
loop_state ==
    <<now, inputs, answers, cur, line_buffer, buffer_lines, listening_started,
      last_response_lines, last_question_time, response_cooldown_until,
      user_typing_until, tasks, verdict, history, last_output_time, inactivity_warned>>

\* Enter without the test of the credential
Enter_without_key_check ==
    /\ relay_pc = "entry"
    /\ IF proc.platform = "windows"
       THEN /\ relay_pc' = "returned"
            /\ proc' = [proc EXCEPT !.reports = @ + 1, !.status = 1]
       ELSE /\ relay_pc' = "setup"
            /\ UNCHANGED proc
    /\ UNCHANGED loop_state

\* if IS_WINDOWS: ... return 1;  if not config.openai_api_key: ... return 1
Enter ==
    /\ relay_pc = "entry"
    /\ IF proc.platform = "windows" \/ ~proc.key
       THEN /\ relay_pc' = "returned"
            /\ proc' = [proc EXCEPT !.reports = @ + 1, !.status = 1]
       ELSE /\ relay_pc' = "setup"
            /\ UNCHANGED proc
    /\ UNCHANGED loop_state

\* the banner, the line in BUFFER_FILE, the session log, and
\* old_tty = termios.tcgetattr(sys.stdin)
Setup ==
    /\ relay_pc = "setup"
    /\ relay_pc' = "fork"
    /\ proc' = [proc EXCEPT !.effects = @ \cup {"banner", "buffer_file", "session_log"}]
    /\ UNCHANGED loop_state

\* pid, master_fd = pty.fork(): when it raises, "except Exception" is next.
\* Otherwise the child calls os.execlp and the parent tty.setraw; when
\* execlp raises, it is the child's copy of autonomous_mode that prints the
\* error and returns 1, and the child is gone when the parent's loop starts.
Spawn ==
    /\ relay_pc = "fork"
    /\ IF proc.spawn = "fork_fails"
       THEN /\ relay_pc' = "failed"
            /\ UNCHANGED proc
       ELSE /\ relay_pc' = "select"
            /\ proc' = [proc EXCEPT
                            !.effects = @ \cup {"pty", "child", "raw"},
                            !.child = IF proc.spawn = "ok" THEN "running" ELSE "exited",
                            !.tty = "raw"]
    /\ UNCHANGED loop_state

\* the supervised process exits, wherever the relay loop is
ChildExits ==
    /\ relay_pc \in {"select", "lines", "classify"}
    /\ proc.child = "running"
    /\ proc' = [proc EXCEPT !.child = "exited"]
    /\ UNCHANGED <<relay_pc, loop_state>>

\* ProcessExit of a loop that leaves only when no consultation is in flight
ProcessExit_after_tasks ==
    /\ relay_pc = "select"
    /\ proc.child = "exited"
    /\ \A i \in 1..Len(tasks) : tasks[i].pc \in {"done", "died"}
    /\ relay_pc' = "finally"
    /\ proc' = [proc EXCEPT !.cause = "exit"]
    /\ UNCHANGED loop_state

\* result = os.waitpid(pid, os.WNOHANG); if result[0] != 0: break
ProcessExit ==
    /\ relay_pc = "select"
    /\ proc.child = "exited"
    /\ relay_pc' = "finally"
    /\ proc' = [proc EXCEPT !.cause = "exit"]
    /\ UNCHANGED loop_state

\* os.read(master_fd, 1024) returns b'' or raises OSError: raise EOFError(),
\* and "except EOFError: pass"
PtyEof ==
    /\ relay_pc = "select"
    /\ relay_pc' = "finally"
    /\ proc' = [proc EXCEPT !.cause = "eof"]
    /\ UNCHANGED loop_state

\* SIGINT reaches the interpreter anywhere in the loop: except KeyboardInterrupt
Interrupt ==
    /\ relay_pc \in {"select", "lines", "classify"}
    /\ relay_pc' = "finally"
    /\ proc' = [proc EXCEPT !.cause = "interrupt"]
    /\ UNCHANGED loop_state

\* Finally without termios.tcsetattr
Finally_keeps_raw ==
    /\ relay_pc \in {"finally", "failed"}
    /\ relay_pc' = "returned"
    /\ proc' = [proc EXCEPT
                    !.cause = IF relay_pc = "failed" THEN "exception" ELSE @,
                    !.reports = IF relay_pc = "failed" THEN @ + 1 ELSE @,
                    !.status = IF relay_pc = "failed" THEN 1 ELSE 0]
    /\ UNCHANGED loop_state

\* except Exception: print the error, return 1; finally:
\* termios.tcsetattr(sys.stdin, termios.TCSADRAIN, old_tty); return 0
Finally ==
    /\ relay_pc \in {"finally", "failed"}
    /\ relay_pc' = "returned"
    /\ proc' = [proc EXCEPT
                    !.cause = IF relay_pc = "failed" THEN "exception" ELSE @,
                    !.reports = IF relay_pc = "failed" THEN @ + 1 ELSE @,
                    !.status = IF relay_pc = "failed" THEN 1 ELSE 0,
                    !.tty = "cooked"]
    /\ UNCHANGED loop_state

\* sys.exit(main()): the interpreter exits and the daemon threads end with it
Exit ==
    /\ relay_pc = "returned"
    /\ proc.alive
    /\ proc' = [proc EXCEPT !.alive = FALSE]
    /\ UNCHANGED <<relay_pc, loop_state>>

\* the session the supervised process and the advisor play
LifecycleSession == Session(<<Pty(ChunkPlan), Pty(ChunkPrefs)>>, {Content(AnswerNo)})

InitLifecycle ==
    /\ LocalsInit(LifecycleSession)
    /\ relay_pc = "entry"
    /\ \E platform \in {"posix", "windows"}, key \in BOOLEAN,
          spawn \in {"ok", "fork_fails", "exec_fails"} :
          proc = [platform |-> platform, key |-> key, spawn |-> spawn, tty |-> "cooked",
                  effects |-> {}, reports |-> 0, child |-> "none", cause |-> "none",
                  status |-> -1, alive |-> TRUE]
    /\ ClassifierIdle

\* a child that has exited prints nothing more; a thread runs as long as the
\* interpreter does
NextLifecycle ==
    \/ Enter /\ UNCHANGED classifier_vars
    \/ Setup /\ UNCHANGED classifier_vars
    \/ Spawn /\ UNCHANGED classifier_vars
    \/ Tick /\ UNCHANGED classifier_vars
    \/ proc.child = "running" /\ ReadPty /\ UNCHANGED classifier_vars
    \/ TakeLine /\ UNCHANGED classifier_vars
    \/ ScanFails /\ UNCHANGED classifier_vars
    \/ Classify /\ UNCHANGED classifier_vars
    \/ ChildExits /\ UNCHANGED classifier_vars
    \/ ProcessExit /\ UNCHANGED classifier_vars
    \/ PtyEof /\ UNCHANGED classifier_vars
    \/ Interrupt /\ UNCHANGED classifier_vars
    \/ Finally /\ UNCHANGED classifier_vars
    \/ Exit /\ UNCHANGED classifier_vars
    \/ proc.alive /\ \E i \in 1..Len(tasks) : \E r \in answers :
           TaskAnswer(i, r) /\ UNCHANGED classifier_vars
    \/ proc.alive /\ \E i \in 1..Len(tasks) : TaskAdd(i) /\ UNCHANGED classifier_vars
    \/ proc.alive /\ \E i \in 1..Len(tasks) : TaskArm(i) /\ UNCHANGED classifier_vars
    \/ proc.alive /\ \E i \in 1..Len(tasks) : TaskType(i) /\ UNCHANGED classifier_vars
    \/ proc.alive /\ \E i \in 1..Len(tasks) : TaskReturn(i) /\ UNCHANGED classifier_vars
    \/ proc.alive /\ \E i \in 1..Len(tasks) : TaskNewline(i) /\ UNCHANGED classifier_vars

SpecLifecycle == InitLifecycle /\ [][NextLifecycle]_vars

\* open(BUFFER_FILE, 'a') at 547, its write, or log_to_file at 550 raises
\* OSError (the disk is full, the file is not writable): the exception leaves
\* handle_output, which was called inside the try of 844, and "except
\* OSError: raise EOFError()" ends the loop
WriteFails ==
    /\ relay_pc = "lines"
    /\ Strip(clean_ansi(SplitLine(line_buffer).line)) # << >>
    /\ relay_pc' = "finally"
    /\ proc' = [proc EXCEPT !.cause = "write_error"]
    /\ last_output_time' = now
    /\ inactivity_warned' = FALSE
    /\ UNCHANGED <<now, inputs, answers, cur, line_buffer, buffer_lines,
                   listening_started, last_response_lines, last_question_time,
                   response_cooldown_until, user_typing_until, tasks, verdict, history>>

\* log_to_file raises in a task, at 794 or 760, before time.sleep: the thread
\* ends with the exception
TaskLogFails(i) ==
    /\ tasks[i].pc \in {"sleep", "menu_sleep"}
    /\ now < tasks[i].wake
    /\ tasks' = [tasks EXCEPT ![i].pc = "died", ![i].outcome = "log_error"]
    /\ UNCHANGED <<last_response_lines, response_cooldown_until>>
    /\ TaskUnchanged

\* the session when the files of the transcript and the log can fail
NextFaults ==
    \/ NextLifecycle
    \/ WriteFails /\ UNCHANGED classifier_vars
    \/ proc.alive /\ \E i \in 1..Len(tasks) : TaskLogFails(i) /\ UNCHANGED classifier_vars

SpecFaults == InitLifecycle /\ [][NextFaults]_vars

\* the steps of the relay thread outside handle_output: select waits 0.1 s
\* at most and the exit check follows it; the finally clause is straight-line
\* code
RelayProgress == ProcessExit \/ Finally

\* the steps of the relay thread inside handle_output, which are enabled
\* exactly when relay_pc is "lines" or "classify"
HandleOutputStep == TakeLine \/ ScanFails \/ Classify

\* weak fairness of HandleOutputStep, with its enabling condition written out
HandleOutputFair ==
    \/ []<>(relay_pc \notin {"lines", "classify"})
    \/ []<><<HandleOutputStep /\ UNCHANGED classifier_vars>>_vars

\* the relay thread is always scheduled; nothing is assumed of the
\* consultation threads, the advisor or the supervised process
LiveLifecycle ==
    /\ SpecLifecycle
    /\ WF_vars(RelayProgress /\ UNCHANGED classifier_vars)
    /\ HandleOutputFair

\* ------------------------------------------------------------------------
\* The command line: main
\* ------------------------------------------------------------------------

\* command in ['auto', 'autopilot', 'autonomous']
AutoCommands ==
    {<<"a","u","t","o">>, <<"a","u","t","o","p","i","l","o","t">>, <<"a","u","t","o","n","o","m","o","u","s">>}

\* command in ['config', 'configure']
ConfigCommands == {<<"c","o","n","f","i","g">>, <<"c","o","n","f","i","g","u","r","e">>}

\* command in ['help', '--help', '-h']
HelpCommands == {<<"h","e","l","p">>, <<"-","-","h","e","l","p">>, <<"-","h">>}

CmdWatch == <<"w","a","t","c","h">>

CmdClaude == <<"c","l","a","u","d","e">>

CmdAsk == <<"a","s","k">>

\* the commands that run their function and return 0
PlainCommands ==
    {<<"b","u","f","f","e","r">>, <<"l","a","s","t">>, <<"c","l","e","a","r">>, <<"s","t","a","t","u","s">>, <<"u","n","i","n","s","t","a","l","l">>}

\* main that returns 0 after printing the usage of auto, watch and ask
main_usage_ok(argv, mode_status) ==
    IF Len(argv) < 2 THEN 0
    ELSE LET command == Lower(argv[2])
             args == SubSeq(argv, 3, Len(argv))
         IN  IF command \in AutoCommands \cup {CmdWatch}
             THEN IF args = << >> THEN 0 ELSE mode_status
             ELSE IF command = CmdClaude THEN mode_status
             ELSE IF command \in {CmdAsk} \cup PlainCommands \cup ConfigCommands
                                    \cup HelpCommands THEN 0
             ELSE 1

\* main(), with sys.argv = argv; mode_status is what autonomous_mode or
\* watch_command returns when main calls it
main(argv, mode_status) ==
    IF Len(argv) < 2 THEN 0
    ELSE LET command == Lower(argv[2])
             args == SubSeq(argv, 3, Len(argv))
         IN  IF command \in AutoCommands
             THEN IF args = << >> THEN 1 ELSE mode_status
             ELSE IF command = CmdWatch
             THEN IF args = << >> THEN 1 ELSE mode_status
             ELSE IF command = CmdClaude THEN mode_status
             ELSE IF command = CmdAsk
             THEN IF args = << >> THEN 1 ELSE 0
             ELSE IF command \in PlainCommands THEN 0
             ELSE IF command \in ConfigCommands THEN 0
             ELSE IF command \in HelpCommands THEN 0
             ELSE 1

\* how many words follow the program's name at most
MaxArgs == 2

\* words of a command line: the commands, two of them in capitals, a word
\* that is no command, and arguments
Words ==
    AutoCommands \cup ConfigCommands \cup HelpCommands \cup PlainCommands
    \cup {CmdWatch, CmdClaude, CmdAsk}
    \cup {<<"H","E","L","P">>, <<"A","u","t","o">>, <<"b","o","g","u","s">>, <<"-","-","v","e","r","s","i","o","n">>, <<"5">>, <<"l","s">>}

ProgramName == <<"h","a","n","s","e","l">>

RECURSIVE ArgLists(_)
ArgLists(n) ==
    IF n = 0 THEN {<< >>}
    ELSE LET shorter == ArgLists(n - 1)
         IN  shorter \cup {Append(a, w) : a \in shorter, w \in Words}

CommandLines == {<<ProgramName>> \o a : a \in ArgLists(MaxArgs)}

InitMain ==
    /\ SessionInit(NoSession)
    /\ qline \in CommandLines
    /\ qresult = -1
    /\ qpc = "input"

\* sys.exit(main())
CallMain ==
    /\ qpc = "input"
    /\ \E mode_status \in {0, 1} : qresult' = main(qline, mode_status)
    /\ qpc' = "done"
    /\ UNCHANGED <<qline, session_vars>>

NextMain == CallMain

SpecMain == InitMain /\ [][NextMain]_vars

\* ------------------------------------------------------------------------
\* A session whose supervised process stays silent for long
\* ------------------------------------------------------------------------

\* how long after start_time the clock of this session runs, and its step
MaxIdle == 70

IdleStep == 5

\* the process prints a line, an empty line and another line, at any times
IdleSession ==
    Session(<<Pty(OutLine(1) \o CRLF), Pty(CRLF), Pty(OutLine(2) \o CRLF)>>, {})

InitInactivity == SessionInit(IdleSession) /\ ClassifierIdle

\* select.select([sys.stdin, master_fd], [], [], 0.1) times out, again and
\* again, for IdleStep seconds
Wait ==
    /\ relay_pc = "select"
    /\ now + IdleStep <= start_time + MaxIdle
    /\ now' = now + IdleStep
    /\ UNCHANGED <<inputs, answers, relay_pc, cur, line_buffer, buffer_lines,
                   listening_started, last_response_lines, last_question_time,
                   response_cooldown_until, user_typing_until, tasks, verdict, history,
                   proc, last_output_time, inactivity_warned>>

\* InactivityCheck that leaves inactivity_warned[0] as it is
InactivityCheck_rearmed ==
    /\ relay_pc = "select"
    /\ listening_started /\ ~inactivity_warned
    /\ now - last_output_time >= inactivity_threshold
    /\ history.warnings < 3
    /\ history' = [history EXCEPT !.warnings = @ + 1, !.idle = now - last_output_time]
    /\ UNCHANGED <<now, inputs, answers, relay_pc, cur, line_buffer, buffer_lines,
                   listening_started, last_response_lines, last_question_time,
                   response_cooldown_until, user_typing_until, tasks, verdict,
                   proc, last_output_time, inactivity_warned>>

\* if listening_started and not inactivity_warned[0]: ... if
\* time_since_output >= inactivity_threshold: the warning, and
\* inactivity_warned[0] = True
InactivityCheck ==
    /\ relay_pc = "select"
    /\ listening_started /\ ~inactivity_warned
    /\ now - last_output_time >= inactivity_threshold
    /\ inactivity_warned' = TRUE
    /\ history' = [history EXCEPT !.warnings = @ + 1, !.idle = now - last_output_time]
    /\ UNCHANGED <<now, inputs, answers, relay_pc, cur, line_buffer, buffer_lines,
                   listening_started, last_response_lines, last_question_time,
                   response_cooldown_until, user_typing_until, tasks, verdict,
                   proc, last_output_time>>

NextInactivity ==
    \/ Wait /\ UNCHANGED classifier_vars
    \/ ReadPty /\ UNCHANGED classifier_vars
    \/ TakeLine /\ UNCHANGED classifier_vars
    \/ Classify /\ UNCHANGED classifier_vars
    \/ InactivityCheck /\ UNCHANGED classifier_vars

SpecInactivity == InitInactivity /\ [][NextInactivity]_vars

\* ------------------------------------------------------------------------
\* A question asked when the rolling buffer is about to be trimmed
\* ------------------------------------------------------------------------

\* how far from empty and from buffer_max the buffer is when the session
\* of this section starts
SnapshotMargin == 2

\* the process has printed n lines during the startup delay; it asks the
\* plan question and prints two more lines
AskingSession(n) ==
    Session(<<Pty(ChunkPlan), Pty(OutLine(n + 1) \o CRLF \o OutLine(n + 2) \o CRLF)>>,
            {Content(AnswerNo)})

InitSnapshot ==
    \E n \in (0..SnapshotMargin) \cup ((buffer_max - SnapshotMargin)..buffer_max) :
        /\ now = start_time
        /\ inputs = AskingSession(n).inputs
        /\ answers = AskingSession(n).answers
        /\ relay_pc = "select"
        /\ cur = NoLine
        /\ line_buffer = << >>
        /\ buffer_lines = OutLines(n)
        /\ listening_started = FALSE
        /\ last_response_lines = {}
        /\ last_question_time = 0
        /\ response_cooldown_until = 0
        /\ user_typing_until = 0
        /\ tasks = << >>
        /\ verdict = NoVerdict
        /\ history = [NoHistory EXCEPT !.lines = n]
        /\ proc = Running
        /\ last_output_time = start_time
        /\ inactivity_warned = FALSE
        /\ ClassifierIdle

NextSnapshot ==
    \/ Tick /\ UNCHANGED classifier_vars
    \/ ReadPty /\ UNCHANGED classifier_vars
    \/ TakeLine /\ UNCHANGED classifier_vars
    \/ Classify /\ UNCHANGED classifier_vars
    \/ \E i \in 1..Len(tasks) : \E r \in answers : TaskAnswer(i, r) /\ UNCHANGED classifier_vars
    \/ \E i \in 1..Len(tasks) : TaskAdd(i) /\ UNCHANGED classifier_vars
    \/ \E i \in 1..Len(tasks) : TaskArm(i) /\ UNCHANGED classifier_vars
    \/ \E i \in 1..Len(tasks) : TaskType(i) /\ UNCHANGED classifier_vars
    \/ \E i \in 1..Len(tasks) : TaskReturn(i) /\ UNCHANGED classifier_vars
    \/ \E i \in 1..Len(tasks) : TaskNewline(i) /\ UNCHANGED classifier_vars

SpecSnapshot == InitSnapshot /\ [][NextSnapshot]_vars

\* ------------------------------------------------------------------------
\* A long answer: the time the typing loop takes
\* ------------------------------------------------------------------------

\* the characters the typing loop writes in one second: each is followed by
\* time.sleep(0.01)
TypeBlock == 100

\* the longest answer of this section, in blocks of TypeBlock characters
MaxBlocks == 12

\* an answer of n characters in one line
LongAnswer(n) == [k \in 1..n |-> "a"]

\* the process asks the plan question and the advisor's answer is n blocks
\* long (max_tokens is 500, and a token is several characters)
LongSession(n) == Session(<<Pty(ChunkPlan)>>, {Content(LongAnswer(n * TypeBlock))})

InitTyping == (\E n \in 1..MaxBlocks : SessionInit(LongSession(n))) /\ ClassifierIdle

\* what task i has still to type
Untyped(i) == SubSeq(tasks[i].response, Len(tasks[i].out) + 1, Len(tasks[i].response))

\* for char in response: os.write(fd, char.encode()); time.sleep(0.01)
\* a hundred times: one second passes
TaskTypeBlock(i) ==
    /\ tasks[i].pc = "type"
    /\ Len(Untyped(i)) >= TypeBlock
    /\ now' = now + 1
    /\ tasks' = [tasks EXCEPT ![i].out = @ \o SubSeq(Untyped(i), 1, TypeBlock)]
    /\ history' = [history EXCEPT
                       !.written = @ \o Written(i, SubSeq(Untyped(i), 1, TypeBlock))]
    /\ UNCHANGED <<inputs, answers, relay_pc, cur, line_buffer, buffer_lines,
                   listening_started, last_response_lines, last_question_time,
                   response_cooldown_until, user_typing_until, verdict, proc,
                   last_output_time, inactivity_warned>>

\* the same loop for the characters that are left, less than a second
TaskTypeRest(i) ==
    /\ tasks[i].pc = "type"
    /\ Len(Untyped(i)) < TypeBlock
    /\ tasks' = [tasks EXCEPT ![i].out = @ \o Untyped(i), ![i].pc = "cr"]
    /\ UNCHANGED <<last_response_lines, response_cooldown_until>>
    /\ TaskWrites(i, Untyped(i))

NextTyping ==
    \/ Tick /\ UNCHANGED classifier_vars
    \/ ReadPty /\ UNCHANGED classifier_vars
    \/ TakeLine /\ UNCHANGED classifier_vars
    \/ Classify /\ UNCHANGED classifier_vars
    \/ \E i \in 1..Len(tasks) : \E r \in answers : TaskAnswer(i, r) /\ UNCHANGED classifier_vars
    \/ \E i \in 1..Len(tasks) : TaskAdd(i) /\ UNCHANGED classifier_vars
    \/ \E i \in 1..Len(tasks) : TaskArm(i) /\ UNCHANGED classifier_vars
    \/ \E i \in 1..Len(tasks) : TaskTypeBlock(i) /\ UNCHANGED classifier_vars
    \/ \E i \in 1..Len(tasks) : TaskTypeRest(i) /\ UNCHANGED classifier_vars
    \/ \E i \in 1..Len(tasks) : TaskReturn(i) /\ UNCHANGED classifier_vars
    \/ \E i \in 1..Len(tasks) : TaskNewline(i) /\ UNCHANGED classifier_vars

SpecTyping == InitTyping /\ [][NextTyping]_vars

\* ------------------------------------------------------------------------
\* Watch mode: watch_command
\* ------------------------------------------------------------------------

\* str.rstrip()
rstrip(s) ==
    LET keep == {i \in 1..Len(s) : ~IsSpace(s[i])}
    IN  IF keep = {} THEN << >>
        ELSE SubSeq(s, 1, CHOOSE i \in keep : \A j \in keep : j <= i)

\* the lines the watched command can print, and how many of them it prints
WatchLines == {LinePlan, LineDatabase, LineNavHint}

MaxWatchLines == 3

RECURSIVE WatchOutputs(_)
WatchOutputs(n) ==
    IF n = 0 THEN {<< >>}
    ELSE WatchOutputs(n - 1)
           \cup {Append(out, Pty(line \o LF)) : out \in WatchOutputs(n - 1), line \in WatchLines}

\* the state at the call of watch_command: the locals of 914 to 916
InitWatch ==
    /\ \E out \in WatchOutputs(MaxWatchLines) : LocalsInit(Session(out, {Content(AnswerNo)}))
    /\ relay_pc = "entry"
    /\ \E platform \in {"posix", "windows"} :
          proc = [platform |-> platform, key |-> TRUE, spawn |-> "ok", tty |-> "cooked",
                  effects |-> {}, reports |-> 0, child |-> "none", cause |-> "none",
                  status |-> -1, alive |-> TRUE]
    /\ ClassifierIdle

\* if IS_WINDOWS: return 1; else the banner, the header in BUFFER_FILE and
\* subprocess.Popen(cmd, shell=True, stdout=subprocess.PIPE, ...)
WatchEnter ==
    /\ relay_pc = "entry"
    /\ IF proc.platform = "windows"
       THEN /\ relay_pc' = "returned"
            /\ proc' = [proc EXCEPT !.reports = @ + 1, !.status = 1]
       ELSE /\ relay_pc' = "watch"
            /\ proc' = [proc EXCEPT !.effects = {"banner", "buffer_file", "child"},
                                    !.child = "running"]
    /\ UNCHANGED loop_state

\* process.stdout.readline() blocks for startup_delay seconds
WatchWait ==
    /\ relay_pc = "watch"
    /\ now + startup_delay <= start_time + MaxTime
    /\ now' = now + startup_delay
    /\ UNCHANGED <<inputs, answers, relay_pc, cur, line_buffer, buffer_lines,
                   listening_started, last_response_lines, last_question_time,
                   response_cooldown_until, user_typing_until, tasks, verdict, history,
                   proc, last_output_time, inactivity_warned>>

\* WatchLine that hands a detected question to a consultation task
WatchLine_consults ==
    /\ relay_pc = "watch"
    /\ inputs # << >>
    /\ LET line == Head(inputs).data
           clean_line == clean_ansi(rstrip(line))
           listening == listening_started \/ now - start_time >= startup_delay
           detected == listening /\ is_question(clean_line)
       IN  /\ inputs' = Tail(inputs)
           /\ buffer_lines' = append_line(buffer_lines, clean_line)
           /\ listening_started' = listening
           /\ verdict' = Verdict(clean_line, IF detected THEN "notice" ELSE "ignore",
                                 FALSE, buffer_lines', listening)
           /\ history' = [history EXCEPT !.received = @ \o line,
                                         !.lines = @ + 1,
                                         !.notices = @ + (IF detected THEN 1 ELSE 0)]
           /\ tasks' = IF detected
                       THEN Append(tasks, [question |-> clean_line, pc |-> "ask"])
                       ELSE tasks
    /\ UNCHANGED <<now, answers, relay_pc, cur, line_buffer, last_response_lines,
                   last_question_time, response_cooldown_until, user_typing_until,
                   proc, last_output_time, inactivity_warned>>

\* one pass of "for line in iter(process.stdout.readline, '')": print the
\* line, append it to BUFFER_FILE and to buffer_lines, trim, set
\* listening_started, and report a question
WatchLine ==
    /\ relay_pc = "watch"
    /\ inputs # << >>
    /\ LET line == Head(inputs).data
           clean_line == clean_ansi(rstrip(line))
           listening == listening_started \/ now - start_time >= startup_delay
           detected == listening /\ is_question(clean_line)
       IN  /\ inputs' = Tail(inputs)
           /\ buffer_lines' = append_line(buffer_lines, clean_line)
           /\ listening_started' = listening
           /\ verdict' = Verdict(clean_line, IF detected THEN "notice" ELSE "ignore",
                                 FALSE, buffer_lines', listening)
           /\ history' = [history EXCEPT !.received = @ \o line,
                                         !.lines = @ + 1,
                                         !.notices = @ + (IF detected THEN 1 ELSE 0)]
    /\ UNCHANGED <<now, answers, relay_pc, cur, line_buffer, last_response_lines,
                   last_question_time, response_cooldown_until, user_typing_until,
                   tasks, proc, last_output_time, inactivity_warned>>

\* readline returns '': process.wait() and return 0
WatchEnd ==
    /\ relay_pc = "watch"
    /\ inputs = << >>
    /\ relay_pc' = "returned"
    /\ proc' = [proc EXCEPT !.child = "exited", !.cause = "exit", !.status = 0]
    /\ UNCHANGED loop_state

\* except KeyboardInterrupt: return 0
WatchInterrupt ==
    /\ relay_pc = "watch"
    /\ relay_pc' = "returned"
    /\ proc' = [proc EXCEPT !.cause = "interrupt", !.reports = @ + 1, !.status = 0]
    /\ UNCHANGED loop_state

\* except Exception (the open or the write of BUFFER_FILE fails): return 1
WatchFails ==
    /\ relay_pc = "watch"
    /\ relay_pc' = "returned"
    /\ proc' = [proc EXCEPT !.cause = "error", !.reports = @ + 1, !.status = 1]
    /\ UNCHANGED loop_state

NextWatch ==
    \/ WatchEnter /\ UNCHANGED classifier_vars
    \/ WatchWait /\ UNCHANGED classifier_vars
    \/ WatchLine /\ UNCHANGED classifier_vars
    \/ WatchEnd /\ UNCHANGED classifier_vars
    \/ WatchInterrupt /\ UNCHANGED classifier_vars
    \/ WatchFails /\ UNCHANGED classifier_vars

SpecWatch == InitWatch /\ [][NextWatch]_vars

\* ------------------------------------------------------------------------
\* Properties
\* ------------------------------------------------------------------------

Tasks == 1..Len(tasks)

InFlight == {i \in Tasks : tasks[i].pc # "done"}

\* C1: two lines that each classify as Question and are processed less than
\* cooldown_seconds (10 s) apart give one dispatch: a Question is dispatched
\* only when at least 10 s have passed since the last dispatch, so two
\* Question tasks are never born less than 10 s apart.
C1_OneQuestionPerCooldown ==
    /\ verdict.result = "question" => verdict.since >= cooldown_seconds
    /\ \A i, j \in Tasks :
          i < j /\ tasks[i].kind = "question" /\ tasks[j].kind = "question"
              => tasks[j].born - tasks[i].born >= cooldown_seconds

\* a second question line was judged within 10 s of a Question dispatch and
\* was dropped by the cooldown between questions
C1_SecondQuestionSuppressed ==
    /\ verdict.result = "question_cooldown"
    /\ verdict.listening /\ ~verdict.trigger /\ ~verdict.context
    /\ is_question(verdict.line)
    /\ \E i \in Tasks : tasks[i].kind = "question" /\ now - tasks[i].born < cooldown_seconds

C3_OneTaskInFlight == Cardinality(InFlight) <= 1

\* C3 as the code has it: only the cooldown between dispatches throttles the
\* tasks: any two dispatches are at least menu_cooldown (3 s) apart.
C3_DispatchesApart ==
    \A i, j \in Tasks : i < j => tasks[j].born - tasks[i].born >= menu_cooldown

\* a second task was dispatched while the first was still in flight
C3_TwoInFlight ==
    \E i, j \in InFlight : i < j /\ tasks[j].born - tasks[i].born >= menu_cooldown

\* C4: a line whose normalized text (stripped, lower-cased, first 50
\* characters) is in last_response_lines when the echo guard looks at it is
\* never classified and never dispatched.
C4_EchoDiscarded ==
    /\ relay_pc = "classify" => Normalized(cur.clean_line) \notin cur.pending
    /\ \A i \in Tasks : Normalized(tasks[i].question) \notin tasks[i].pending

\* the echo of the second line of AnswerProceed was dropped by the echo guard
\* while last_response_lines held the answer's lines
C4_EchoSkipped ==
    /\ verdict.result = "own_response"
    /\ verdict.line = SplitNewline(AnswerProceed)[2]
    /\ is_question(verdict.line)
    /\ Normalized(verdict.line) \in last_response_lines
    /\ \E i \in Tasks : tasks[i].pc = "done" /\ tasks[i].response = AnswerProceed

\* C5: no Question is dispatched inside the post-response mute period: at
\* the dispatch of a Question the clock is not before response_cooldown_until.
C5_NoQuestionWhileMuted ==
    \A i \in Tasks : tasks[i].kind = "question" => ~tasks[i].muted

\* C6 as the specification states it: right after an answer has been injected
\* there is an interval in which a menu trigger is not dispatched, so a menu
\* dispatch that follows an injection comes strictly later than it.
C6_MenuWaitsAfterInjection ==
    \A i \in Tasks :
        tasks[i].kind = "menu" /\ tasks[i].last_injection > 0
            => tasks[i].born > tasks[i].last_injection

\* C6 as the code has it: the response cooldown never holds back a line that
\* satisfies the menu trigger; such a line is dispatched exactly when the
\* session is listening and menu_cooldown (3 s) has passed since the last
\* dispatch.
C6_MenuBypassesMute ==
    verdict.trigger =>
        /\ verdict.result # "response_cooldown"
        /\ verdict.result = "menu"
               <=> (verdict.listening /\ verdict.since >= menu_cooldown)

\* a menu was dispatched inside the post-response mute period
C6_MenuDispatchedWhileMuted ==
    \E i \in Tasks : tasks[i].kind = "menu" /\ tasks[i].muted

\* C7: the line "Should I use PostgreSQL or MongoDB?", judged while the
\* session listens, outside a menu context and with both cooldowns over, is
\* classified Question and dispatched.
C7_DatabaseQuestionDispatched ==
    /\ verdict.line = LineDatabase
    /\ verdict.listening /\ ~verdict.context
    /\ verdict.result \in {"ignore", "menu", "question"}
    => /\ verdict.result = "question"
       /\ \E i \in Tasks : tasks[i].question = LineDatabase

\* text of letters and blanks, with at most a final question mark
Worded(line) ==
    LET s == Strip(line)
    IN  /\ s # << >>
        /\ \A i \in 1..Len(s) :
               IsLetter(s[i]) \/ s[i] = " " \/ (s[i] = "?" /\ i = Len(s))

\* natural-language text: worded, and no comment, statement, diff line, UI
\* hint, menu label or declaration
NaturalLanguage(line) ==
    LET l == Lower(Strip(line))
    IN  /\ Worded(line)
        /\ ~(SkipStatement(l) \/ SkipDiff(l) \/ SkipUiHint(l) \/ SkipMenu(l))
        /\ ~(sk_const(l) \/ sk_let(l) \/ sk_var(l))

LongEnough(line) == Len(Strip(line)) >= MinQuestionLen

\* C8: is_question is true for every natural-language line of at least 15
\* characters whose last non-space character is a question mark.
C8_QuestionMarkLines ==
    /\ qpc = "done"
    /\ NaturalLanguage(qline) /\ LongEnough(qline)
    /\ Strip(qline)[Len(Strip(qline))] = "?"
    => qresult

\* C9: is_question is true for every natural-language line of at least 15
\* characters that begins with "Would you", "Do you" or "Should I", or that
\* contains "proceed".
C9_OpenersAndProceed ==
    /\ qpc = "done"
    /\ NaturalLanguage(qline) /\ LongEnough(qline)
    /\ LET l == Lower(Strip(qline))
       IN  qp_would_you(l) \/ qp_do_you(l) \/ qp_should_i(l) \/ qp_proceed(l)
    => qresult

C11_ShortLinesIgnored ==
    /\ ~LongEnough(verdict.line) => verdict.result \notin {"question", "menu"}
    /\ \A i \in Tasks : LongEnough(tasks[i].question)

\* C11 as the code has it: the minimum length belongs to is_question only: a
\* line shorter than 15 characters is never a Question (a menu trigger is
\* not held to any length).
C11_ShortLinesNoQuestion ==
    /\ ~LongEnough(verdict.line) => verdict.result # "question"
    /\ \A i \in Tasks : tasks[i].kind = "question" => LongEnough(tasks[i].question)

\* "Should I go on" (14 characters) reached the classification while the
\* session listened, outside a menu context and with the cooldowns over, and
\* was ignored
C11_ShortLineJudged ==
    /\ verdict.line = LineShort
    /\ verdict.listening /\ ~verdict.context
    /\ verdict.since >= cooldown_seconds
    /\ verdict.result = "ignore"

\* the recent window ends with the confirmation menu and its navigation hint
MenuWindow(lines) == LastN(lines, 4) = <<LineConfirm, LineYes, LineNo, LineNavHint>>

\* C12: with "Do you want to proceed?", "1. Yes", "2. No" in the window, the
\* line "Enter to select, Esc to cancel" judged while listening with the
\* cooldowns over is dispatched as a menu, the task takes the menu path, and
\* when the advisor's reply is "1" the task writes "1" and a carriage return
\* and nothing else.
C12_MenuScenario ==
    /\ relay_pc = "classify" /\ MenuWindow(buffer_lines) => cur.menu_trigger
    /\ /\ verdict.line = LineNavHint
       /\ verdict.listening /\ verdict.since >= menu_cooldown
       /\ verdict.result \notin {"none", "blank", "own_response"}
       => verdict.result = "menu"
    /\ \A i \in Tasks :
          MenuWindow(tasks[i].context) =>
              /\ tasks[i].kind = "menu" /\ tasks[i].path = "menu"
              /\ tasks[i].pc = "done" /\ tasks[i].reply = [ok |-> TRUE, content |-> <<"1">>]
                     => tasks[i].out = <<"1", "\r">>

\* the menu of the scenario was dispatched, the advisor replied "1" and the
\* task has written "1" and the carriage return
C12_MenuAnswered ==
    \E i \in Tasks :
        /\ tasks[i].question = LineNavHint /\ MenuWindow(tasks[i].context)
        /\ tasks[i].kind = "menu"
        /\ tasks[i].reply = [ok |-> TRUE, content |-> <<"1">>]
        /\ tasks[i].pc = "done"
        /\ tasks[i].out = <<"1", "\r">>

\* C13: while a navigation hint, a numbered option or a confirmation phrase
\* is in the recent window no line is dispatched as a Question: every
\* dispatch made in that state is a menu dispatch.
C13_NoQuestionInMenuContext ==
    /\ verdict.context => verdict.result # "question"
    /\ \A i \in Tasks :
          /\ tasks[i].kind = "question" => ~menu_context(tasks[i].context)
          /\ menu_context(tasks[i].context) => tasks[i].kind = "menu"

\* a line that is_question accepts was judged in a menu context, while
\* listening and with the cooldowns over, and was ignored
C13_QuestionLineInMenuContext ==
    /\ verdict.context
    /\ is_question(verdict.line)
    /\ verdict.listening /\ verdict.since >= cooldown_seconds
    /\ verdict.result = "ignore"

\* the maximal runs of digits of a text: the numbers written in it
DigitRuns(text) ==
    {SubSeq(text, r[1], r[2]) :
        r \in {p \in (1..Len(text)) \X (1..Len(text)) :
                  /\ p[1] <= p[2]
                  /\ \A k \in p[1]..p[2] : IsDigit(text[k])
                  /\ p[1] = 1 \/ ~IsDigit(text[p[1] - 1])
                  /\ p[2] = Len(text) \/ ~IsDigit(text[p[2] + 1])}}

\* C14: what a menu task writes is a token and one carriage return; the
\* token is "1" when the request failed, empty when the reply holds no digit,
\* and otherwise the one option number of the reply.
C14_MenuTokenSafe ==
    \A i \in Tasks :
        tasks[i].path = "menu" /\ tasks[i].pc = "done" =>
            \E token \in {tasks[i].response} :
                /\ tasks[i].out = token \o <<"\r">>
                /\ IF ~tasks[i].reply.ok THEN token = <<"1">>
                   ELSE IF DigitRuns(tasks[i].reply.content) = {} THEN token = << >>
                   ELSE token \in DigitRuns(tasks[i].reply.content)

ErrorPrefix == <<"E","r","r","o","r",":">>

\* C15: when the request of a free-form task fails with a transport error
\* the task does not end there: its answer is the literal text "Error: API
\* request failed - ...", and what it writes is that text followed by the
\* carriage return and the newline.
C15_TransportErrorTyped ==
    \A i \in Tasks :
        tasks[i].outcome = "transport" =>
            /\ tasks[i].pc # "died"
            /\ tasks[i].response = ErrorRequest
            /\ StartsWith(tasks[i].response, ErrorPrefix)
            /\ tasks[i].pc = "done" => tasks[i].out = ErrorRequest \o <<"\r", "\n">>

\* the error text has been written, and a later line was dispatched
C15_DetectionAfterError ==
    \E i, j \in Tasks :
        /\ tasks[i].outcome = "transport" /\ tasks[i].pc = "done"
        /\ tasks[i].out = ErrorRequest \o <<"\r", "\n">>
        /\ i < j /\ tasks[j].born >= tasks[i].finished

\* C16: whatever the outcome of the request, a free-form task is not ended
\* by it, and when the task is done it has replaced last_response_lines,
\* armed the cooldown and written a text followed by the carriage return and
\* the newline.
C16_PipelineTotal ==
    \A i \in Tasks :
        tasks[i].path = "free" =>
            /\ tasks[i].pc # "died"
            /\ tasks[i].pc = "done" =>
                   /\ tasks[i].stored /\ tasks[i].armed
                   /\ tasks[i].response # << >>
                   /\ tasks[i].out = tasks[i].response \o <<"\r", "\n">>

\* C17: the scan of last_response_lines by handle_output never runs while a
\* task is between its clear() and its last add(), and the relay loop is
\* never ended by the set changing during the scan.
C17_ScanSynchronised == ~history.torn /\ relay_pc # "failed"

\* the normalized lines of an answer
AnswerLines(response) ==
    {Normalized(line) : line \in Range(SplitNewline(response))} \ {<< >>}

C19_BufferBounded ==
    [][/\ Len(buffer_lines') <= buffer_max
       /\ \/ buffer_lines' = buffer_lines
          \/ /\ buffer_lines' # << >>
             /\ LET longer == Append(buffer_lines, buffer_lines'[Len(buffer_lines')])
                IN  buffer_lines' =
                        IF Len(longer) > buffer_max
                        THEN SubSeq(longer, Len(longer) - buffer_keep + 1, Len(longer))
                        ELSE longer]_vars

\* the 201st line was appended and the buffer was cut to lines 102..201
C19_BufferTrimmed ==
    /\ Len(buffer_lines) = buffer_keep
    /\ buffer_lines[1] = OutLine(buffer_max - buffer_keep + 2)
    /\ buffer_lines[buffer_keep] = OutLine(buffer_max + 1)

\* C20: the text read from the PTY is split off the accumulator once and in
\* the order it arrived (what was split off, followed by what the
\* accumulator holds, is what was read), whole lines at a time; a line that
\* reaches the classification has passed the echo guard; and the lines that
\* were dispatched are different lines, in the order they arrived.
C20_LinesOnceInOrder ==
    /\ history.taken \o line_buffer = history.received
    /\ history.taken # << >> => history.taken[Len(history.taken)] \in {"\n", "\r"}
    /\ Len(buffer_lines) <= history.lines
    /\ relay_pc = "classify" => ~own_response(cur.clean_line, cur.pending)
    /\ \A i \in Tasks :
          /\ ~own_response(tasks[i].question, tasks[i].pending)
          /\ tasks[i].line_no <= history.lines
          /\ \A j \in Tasks : i < j => tasks[i].line_no < tasks[j].line_no

\* complete lines were left in the accumulator by a return of handle_output,
\* and by now everything that was read has been split off
C20_DeferredLinesTaken ==
    /\ history.deferred
    /\ inputs = << >> /\ relay_pc = "select"
    /\ line_buffer = << >>
    /\ history.lines >= 2
    /\ history.taken = history.received

\* the lines a text has when it is cut at each separator, the earliest first
\* ("\r\n" is one separator), and what is left after the last one
RECURSIVE CutAtEarliest(_)
CutAtEarliest(text) ==
    IF ~HasSeparator(text) THEN [lines |-> << >>, rest |-> text]
    ELSE LET i == CHOOSE k \in 1..Len(text) :
                      /\ text[k] \in {"\r", "\n"}
                      /\ \A m \in 1..(k - 1) : text[m] \notin {"\r", "\n"}
             n == IF LitAt(text, i, <<"\r", "\n">>) THEN 2 ELSE 1
             after == CutAtEarliest(SubSeq(text, i + n, Len(text)))
         IN  [lines |-> <<SubSeq(text, 1, i - 1)>> \o after.lines, rest |-> after.rest]

\* C21: the Normalizer cuts the accumulated text at the earliest occurrence of
\* any of "\r\n", "\n", "\r": when the chunk has been processed, one line was
\* split off per separator, no line appended to the rolling buffer holds a
\* newline, and what follows the last separator is in the accumulator.
C21_OneLinePerSeparator ==
    /\ \A i \in 1..Len(buffer_lines) : "\n" \notin Range(buffer_lines[i])
    /\ (inputs = << >> /\ relay_pc = "select") =>
          /\ history.lines = Len(CutAtEarliest(history.received).lines)
          /\ line_buffer = CutAtEarliest(history.received).rest

\* bytes 0x00 to 0x1f
C0Controls ==
    {"U+0000", "U+0001", "U+0002", "U+0003", "U+0004", "U+0005", "U+0006", "U+0007",
     "U+0008", "\t", "\n", "U+000B", "\f", "\r", "U+000E", "U+000F", "U+0010", "U+0011",
     "U+0012", "U+0013", "U+0014", "U+0015", "U+0016", "U+0017", "U+0018", "U+0019",
     "U+001A", "U+001B", "U+001C", "U+001D", "U+001E", "U+001F"}

Emitted(text) ==
    LET cut == CutAtEarliest(text).lines
    IN  SelectSeq([i \in 1..Len(cut) |-> clean_ansi(cut[i])],
                  LAMBDA l : Strip(l) # << >>)

\* C22: no chunk read from the PTY is dropped: whatever return handle_output
\* takes (the typing window, the echo guard), the complete non-blank lines of
\* all the text read are the entries of the rolling buffer followed by the
\* complete lines still in the accumulator, and a call that took neither
\* return leaves no complete line in the accumulator.
C22_NoChunkDropped ==
    /\ buffer_lines \o Emitted(line_buffer) = Emitted(history.received)
    /\ (relay_pc = "select" /\ history.returned = "none") => ~HasSeparator(line_buffer)

\* a chunk arrived during the typing window, and its lines are in the rolling
\* buffer after a later chunk was processed
C22_WindowChunkBuffered ==
    /\ history.deferred
    /\ user_typing_until > 0
    /\ history.returned = "none"
    /\ relay_pc = "select"
    /\ Len(buffer_lines) >= 2
    /\ buffer_lines = Emitted(history.received)

\* C24: no task is dispatched while the session is in Starting: a dispatch
\* happens only with the listening flag set and startup_delay seconds after
\* the start, before that a line is appended to the rolling buffer and
\* nothing is dispatched, and the flag, once true, stays true.
C24_NoDispatchWhileStarting ==
    [][/\ listening_started => listening_started'
       /\ listening_started' => now - start_time >= startup_delay
       /\ Len(tasks') > Len(tasks) =>
              listening_started /\ now - start_time >= startup_delay
       /\ now - start_time < startup_delay => tasks' = tasks]_vars

\* a question was processed and buffered before the startup delay was over,
\* and nothing was dispatched
C24_QuestionWhileStarting ==
    /\ ~listening_started
    /\ now - start_time < startup_delay
    /\ verdict.result = "ignore" /\ is_question(verdict.line)
    /\ buffer_lines # << >> /\ buffer_lines[Len(buffer_lines)] = verdict.line
    /\ tasks = << >>

\* C25: on every way out of the relay loop after tty.setraw (the process
\* exited, the PTY gave end-of-file or a read error, SIGINT, an exception),
\* the terminal has its original settings when autonomous_mode has returned.
C25_TerminalRestored ==
    (relay_pc = "returned" /\ "raw" \in proc.effects) =>
        /\ proc.tty = "cooked"
        /\ proc.cause \in {"exit", "eof", "interrupt", "exception"}

\* the operator interrupted a session with a task in flight, and
\* autonomous_mode has returned
C25_InterruptedAndRestored ==
    /\ relay_pc = "returned"
    /\ proc.cause = "interrupt"
    /\ "raw" \in proc.effects
    /\ proc.tty = "cooked"
    /\ \E i \in Tasks : tasks[i].pc # "done"

\* C26: after the relay loop has ended no consultation task writes a byte to
\* the input of the supervised process (stated for a process that is still
\* there to read it).
C26_NoWriteAfterLoop ==
    [][(relay_pc \in {"finally", "failed", "returned"} /\ proc.child = "running") =>
          (\A i \in 1..Len(tasks) : tasks'[i].out = tasks[i].out)]_vars

\* C27: without the credential autonomous_mode reports the error once and
\* returns 1 with nothing done: no banner or file written, no PTY, no child,
\* the terminal mode untouched, no task.
C27_MissingKeyStopsEarly ==
    (proc.platform = "posix" /\ ~proc.key) =>
        /\ relay_pc \in {"entry", "returned"}
        /\ proc.effects = {}
        /\ proc.tty = "cooked"
        /\ proc.child = "none"
        /\ tasks = << >>
        /\ relay_pc = "returned" => proc.status = 1 /\ proc.reports = 1

\* autonomous_mode has returned for want of the credential
C27_ReturnedWithoutKey ==
    /\ proc.platform = "posix" /\ ~proc.key
    /\ relay_pc = "returned"
    /\ proc.status = 1

\* C28: when the supervised process could not be spawned autonomous_mode
\* returns 1, and when the PTY gives a read error or end-of-file after the
\* spawn it returns 0.
C28_SpawnFailureFatal ==
    (relay_pc = "returned" /\ proc.platform = "posix" /\ proc.key) =>
        /\ proc.spawn # "ok" => proc.status = 1
        /\ proc.cause = "eof" => proc.status = 0

\* C29: main returns 0 when called without arguments and for the commands
\* help, --help, -h, status, clear, buffer, last and config, and 1 for a
\* command it does not know and for auto, watch and ask without an argument.
C29_ExitCodes ==
    qpc = "done" =>
        /\ Len(qline) < 2 => qresult = 0
        /\ (Len(qline) >= 2 /\ qline[2] \in
               {<<"h","e","l","p">>, <<"-","-","h","e","l","p">>, <<"-","h">>, <<"s","t","a","t","u","s">>, <<"c","l","e","a","r">>, <<"b","u","f","f","e","r">>, <<"l","a","s","t">>, <<"c","o","n","f","i","g">>})
              => qresult = 0
        /\ (Len(qline) = 2 /\ qline[2] \in {<<"a","u","t","o">>, <<"w","a","t","c","h">>, <<"a","s","k">>})
              => qresult = 1
        /\ (Len(qline) >= 2 /\ Lower(qline[2]) \notin
               AutoCommands \cup ConfigCommands \cup HelpCommands \cup PlainCommands
               \cup {CmdWatch, CmdClaude, CmdAsk})
              => qresult = 1

\* ask was called without a question, and main has returned 1
C29_AskWithoutQuestion ==
    /\ qpc = "done"
    /\ qline = <<ProgramName, CmdAsk>>
    /\ qresult = 1

\* C30: the inactivity warning is raised only with the listening flag set and
\* after at least inactivity_threshold (30) seconds without a processed
\* output line, and at most once between two processed output lines.
C30_WarningOneShot ==
    /\ history.warnings <= 1
    /\ history.warnings = 1 <=> inactivity_warned
    /\ history.warnings = 1 =>
          /\ listening_started
          /\ history.idle >= inactivity_threshold
          /\ now - last_output_time >= history.idle

\* the warning was raised after 30 silent seconds, the silence has gone on,
\* and it is still the only warning
C30_WarnedAndStillSilent ==
    /\ inactivity_warned
    /\ history.warnings = 1
    /\ history.idle = inactivity_threshold
    /\ now - last_output_time >= 2 * inactivity_threshold
    /\ relay_pc = "select"

\* C33: the request shape a task chooses agrees with the classification at
\* dispatch: a task dispatched by the menu trigger takes the menu path and
\* writes digits and a carriage return only, and a task dispatched for a
\* question takes the free-form path.
C33_PathAgreesWithDispatch ==
    \A i \in Tasks :
        /\ tasks[i].kind = "menu" <=> tasks[i].path = "menu"
        /\ tasks[i].kind = "menu" =>
              \A k \in 1..Len(tasks[i].out) : tasks[i].out[k] \in Digits \cup {"\r"}

\* the lines of the buffer before the line that is being classified
Preceding == LastN(SubSeq(buffer_lines, 1, Len(buffer_lines) - 1), context_lines_n - 1)

\* C35: a line is never suppressed by its own text: when the session is
\* listening and both cooldowns are clear, a line for which is_question is
\* true is dispatched as a question if none of the 14 preceding buffer lines
\* holds a navigation hint, a numbered option or a confirmation phrase.
C35_OwnTextNeverSuppresses ==
    [][(/\ relay_pc = "classify"
        /\ cur' = NoLine
        /\ listening_started
        /\ ~(now < response_cooldown_until)
        /\ cooldown_over(FALSE, now - last_question_time)
        /\ is_question(cur.clean_line)
        /\ ~menu_context(Preceding))
       => /\ Len(tasks') = Len(tasks) + 1
          /\ tasks'[Len(tasks')].kind = "question"
          /\ tasks'[Len(tasks')].question = cur.clean_line]_vars

\* C37: exclusion overrides menu redirection: a line that matches an
\* exclusion pattern of the classifier never causes a consultation task to
\* be dispatched, whatever the recent window holds.
C37_ExcludedNeverDispatched ==
    \A i \in Tasks : ~skip_patterns(Lower(Strip(tasks[i].question)))

\* the positions of history.written that task i wrote
WrittenBy(i) == {k \in 1..Len(history.written) : history.written[k].by = i}

\* C34: an injected answer reaches the supervised process as one contiguous
\* byte sequence ending with its terminator: between the first character a
\* task writes and its terminator no byte of the relay loop (an operator
\* keystroke) and no byte of another task is written to the PTY.
C34_AnswerContiguous ==
    \A i \in Tasks :
        \A a, b \in WrittenBy(i) :
            \A k \in a..b : history.written[k].by = i

\* a step of the relay loop: it reads an input or moves inside handle_output
RelayStep == inputs' # inputs \/ relay_pc' # relay_pc \/ cur' # cur

\* C31: the relay loop never runs the advisor call, the response delay or
\* the paced writes: a detection only appends a task that has done nothing
\* yet, a step of the relay loop changes no task and writes no byte for one,
\* and whatever the tasks are doing the next input is read when the loop is
\* at select: a chunk of the PTY is displayed and handed to handle_output,
\* a keystroke is forwarded to the PTY.
C31_RelayNeverBlocks ==
    /\ []((relay_pc = "select" /\ inputs # << >>)
             => ENABLED ((ReadPty \/ ReadStdin) /\ UNCHANGED classifier_vars))
    /\ [][RelayStep =>
            /\ now' = now
            /\ \A i \in Tasks : tasks'[i] = tasks[i]
            /\ Len(tasks') > Len(tasks) =>
                  /\ Len(tasks') = Len(tasks) + 1
                  /\ tasks'[Len(tasks')].pc \in {"ask", "menu_call"}
                  /\ tasks'[Len(tasks')].response = << >>
                  /\ tasks'[Len(tasks')].out = << >>
                  /\ relay_pc' \in {"select", "lines"}
            /\ inputs' # inputs =>
                  IF Head(inputs).from = "pty"
                  THEN /\ history'.received = history.received \o Head(inputs).data
                       /\ history'.written = history.written
                  ELSE /\ history'.written =
                              history.written \o Written(0, Head(inputs).data)
                       /\ history'.received = history.received
            /\ inputs' = inputs => history'.written = history.written]_vars

\* the second chunk has been read and displayed while the task of the plan
\* question waits for the advisor
C31_ReadWhileTaskWaits ==
    /\ Len(tasks) = 1
    /\ tasks[1].pc = "ask"
    /\ tasks[1].question = LinePlan
    /\ history.received = ChunkPlan \o ChunkPrefs

\* C39: the context of a consultation task is a snapshot: it is the rolling
\* buffer at the moment of dispatch, no later step changes it (not the lines
\* the relay loop appends, not the trimming of the buffer), and no step of a
\* task changes the rolling buffer.
C39_ContextIsSnapshot ==
    [][/\ \A i \in Tasks : tasks'[i].context = tasks[i].context
       /\ Len(tasks') > Len(tasks) =>
             /\ tasks'[Len(tasks')].context = buffer_lines
             /\ buffer_lines' = buffer_lines
       /\ (\E i \in Tasks : tasks'[i] # tasks[i]) => buffer_lines' = buffer_lines]_vars

\* the buffer has been trimmed to its last 100 lines and has grown again
\* while the task, which got 200 lines, waits for the advisor
C39_TrimmedWhileInFlight ==
    /\ Len(tasks) = 1
    /\ tasks[1].pc = "ask"
    /\ Len(tasks[1].context) = buffer_max
    /\ Len(buffer_lines) = buffer_keep + 1
    /\ buffer_lines[Len(buffer_lines)] # tasks[1].context[Len(tasks[1].context)]

\* C36: the mute period after a response covers the whole injection of a
\* free-form answer: for every length of the answer, response_cooldown_until
\* is still in the future when the task writes the final line terminator.
C36_MuteCoversInjection ==
    \A i \in Tasks :
        (tasks[i].path = "free" /\ tasks[i].pc = "done")
            => tasks[i].finished < response_cooldown_until

\* C32: watch mode is observe-only: for every output of the watched command
\* watch_command writes nothing to the command's input, calls no advisor and
\* starts no consultation task; a detected question produces a notice to the
\* operator and nothing else, and a line that is no detected question
\* produces none.
C32_WatchObservesOnly ==
    /\ [](/\ tasks = << >>
          /\ history.written = << >>
          /\ last_response_lines = {}
          /\ response_cooldown_until = 0
          /\ last_question_time = 0)
    /\ [][inputs' # inputs =>
            LET clean_line == clean_ansi(rstrip(Head(inputs).data))
            IN  /\ history'.received = history.received \o Head(inputs).data
                /\ answers' = answers
                /\ history'.notices - history.notices =
                       IF listening_started' /\ is_question(clean_line) THEN 1 ELSE 0]_vars

\* the plan question was printed after the startup delay and reported, and
\* watch_command has returned 0
C32_QuestionReported ==
    /\ relay_pc = "returned"
    /\ proc.status = 0
    /\ verdict.line = LinePlan
    /\ verdict.result = "notice"
    /\ history.notices >= 1
    /\ tasks = << >>

\* C38: once the supervised process has exited the session eventually
\* terminates (autonomous_mode returns), whatever state the loop was in and
\* whether or not a consultation task ever finishes.
C38_ExitLeadsToTermination ==
    (proc.child = "exited") ~> (relay_pc = "returned")

\* the process exited while a task was waiting for the advisor, and the
\* session has terminated with the task still waiting
C38_TerminatedWithTaskWaiting ==
    /\ relay_pc = "returned"
    /\ proc.cause = "exit"
    /\ proc.child = "exited"
    /\ \E i \in Tasks : tasks[i].pc = "ask"

\* C40: the writes of the transcript and of the session log are
\* fire-and-forget: a failed write of the buffer file or the log file does
\* not end the relay loop, and it does not keep a task that was dispatched
\* from injecting its answer.
C40_WritesFireAndForget ==
    /\ proc.cause = "write_error" => relay_pc \in {"select", "lines", "classify"}
    /\ \A i \in Tasks : tasks[i].outcome = "log_error" => tasks[i].pc # "died"

====
